---- MODULE Spec2Model ----
(***************************************************************************)
(* Model of the obligation store of ikelee/reminder                        *)
(* (src/src/business/obligationManager.js) as the Express server           *)
(* (src/unnamed/part_003) drives it: one ObligationManager, its in-memory  *)
(* collection, the JSON file it rewrites in full, and the host clock.      *)
(*                                                                         *)
(* Time is counted in milliseconds of Date.now(); the model's clock runs   *)
(* from StartClock to MaxClock and every call reads it once, at an instant *)
(* not earlier than the call before.  A due_at, an estimated_duration, an  *)
(* id and a created_at are integers; the JavaScript values null and        *)
(* undefined of a numeric or date field are the integers NULL and UNDEF.   *)
(***************************************************************************)
EXTENDS Integers, Sequences, FiniteSets, TLC

VARIABLES
    obligations,  \* this.obligations: the in-memory collection, in insertion order
    persisted,    \* the content of data/obligations.json
    clock,        \* the host clock as the most recent call read it (Date.now())
    budget,       \* number of writes of the file that may still fail
    lastOp,       \* the most recent call of the manager: which operation, the
                  \* position it acted on, the status found there, the due_at it
                  \* was given, and how it returned
    parser,       \* the server's AIParser: this.now and whether this.apiKey is set
    inflight,     \* the POST /api/obligations requests that await parser.parse
    app           \* the browser's ObligationApp: isLoading, pendingText, the
                  \* handlers that wait for a response and whether the
                  \* follow-up section shows

vars == <<obligations, persisted, clock, budget, lastOp, parser, inflight, app>>

----------------------------------------------------------------------------
(* Bounds of the model *)

\* the collection holds at most MaxObligations obligations created by add
MaxObligations == 2
\* the clock stops at MaxClock
MaxClock == 2
\* at most MaxFailures writes of the file fail (specifications SpecFaulty and
\* SpecDurable)
MaxFailures == 1
\* in SpecDurable add is called while fewer than MaxHeld obligations are held
MaxHeld == 1

----------------------------------------------------------------------------
(* Values *)

\* JavaScript null in a date or number field
NULL == -1
\* JavaScript undefined: the key is absent
UNDEF == -2
\* new Date(null).getTime()
Epoch == 0
\* the clock when the server starts: an instant after the epoch
StartClock == Epoch + 1

\* due instants a request can carry: one the clock reaches and passes during
\* the run, and one that stays in the future
DueChoices == {StartClock, MaxClock + 1}

Statuses == {"pending", "done", "missed"}

\* an id no obligation has (ids are clock readings, all after the epoch)
AbsentId == Epoch

\* what parser.parse hands to add (server, POST /api/obligations): the
\* fallback record (the text as title, no date, no duration), or an extracted
\* record with a date and a duration
Candidates ==
    {[title |-> "t", due_at |-> NULL, estimated_duration |-> NULL, urgency |-> "null"]}
    \cup {[title |-> "t", due_at |-> d, estimated_duration |-> 15, urgency |-> "null"] :
             d \in DueChoices}

\* the bodies of PATCH /api/obligations/:id that are drawn: a date alone, a
\* cleared date alone or with a cleared duration (the edit overlay's save), a
\* cleared duration alone; each as it is, and with an id and a created_at of
\* the sender's choosing beside it
PatchBodies ==
    LET Fields ==
            {[due_at |-> d, estimated_duration |-> UNDEF] : d \in DueChoices \cup {NULL}}
            \cup {[due_at |-> NULL, estimated_duration |-> NULL],
                  [due_at |-> UNDEF, estimated_duration |-> NULL]}
    IN  {[due_at |-> f.due_at, estimated_duration |-> f.estimated_duration,
          id |-> x, created_at |-> x] : f \in Fields, x \in {UNDEF, AbsentId}}

\* a route that hands the whole body to update
PatchUpdatesWhole(body) == body

\* the updates object PATCH /api/obligations/:id builds from the request body:
\* due_at and estimated_duration, each present only when the body's value is
\* not undefined, and nothing else
PatchUpdates(body) ==
    [due_at |-> body.due_at, estimated_duration |-> body.estimated_duration]

UpdateInputs == {PatchUpdates(body) : body \in PatchBodies}

----------------------------------------------------------------------------
(* Pure helpers *)

\* JavaScript truthiness of a due_at: null and undefined are falsy, an ISO
\* string is truthy
Truthy(v) == v # NULL /\ v # UNDEF

\* a comparison that counts an obligation due at this very instant as overdue
DateBeforeOrAt(v, now) ==
    /\ v # UNDEF
    /\ (IF v = NULL THEN Epoch ELSE v) <= now

\* new Date(v) < now: null converts to the epoch, undefined to an invalid
\* date that compares false with everything
DateBefore(v, now) ==
    /\ v # UNDEF
    /\ (IF v = NULL THEN Epoch ELSE v) < now

\* a lookup that falls back on the first obligation when no id matches
FindIndexOrFirst(obs, id) ==
    IF \E i \in 1..Len(obs) : obs[i].id = id
    THEN CHOOSE i \in 1..Len(obs) :
            /\ obs[i].id = id
            /\ \A j \in 1..(i - 1) : obs[j].id # id
    ELSE IF Len(obs) > 0 THEN 1 ELSE 0

\* obligations.find(o => o.id === id) / findIndex: the first position holding
\* the id, 0 when there is none
FindIndex(obs, id) ==
    IF \E i \in 1..Len(obs) : obs[i].id = id
    THEN CHOOSE i \in 1..Len(obs) :
            /\ obs[i].id = id
            /\ \A j \in 1..(i - 1) : obs[j].id # id
    ELSE 0

\* an add that derives the first status from the due date
NewObligationClassified(c, now) ==
    [id |-> now,
     title |-> IF c.title = "" THEN "Untitled obligation" ELSE c.title,
     due_at |-> c.due_at,
     estimated_duration |-> c.estimated_duration,
     urgency |-> c.urgency,
     status |-> IF Truthy(c.due_at) /\ DateBefore(c.due_at, now)
                THEN "missed" ELSE "pending",
     created_at |-> now]

\* the object add builds from a candidate at instant now
NewObligation(c, now) ==
    [id |-> now,
     title |-> IF c.title = "" THEN "Untitled obligation" ELSE c.title,
     due_at |-> c.due_at,
     estimated_duration |-> c.estimated_duration,
     urgency |-> c.urgency,
     status |-> "pending",
     created_at |-> now]

\* Object.assign(obligation, updates): every key present in updates
\* overwrites the obligation's
AssignUpdates(o, u) ==
    [k \in DOMAIN o |-> IF k \in DOMAIN u /\ u[k] # UNDEF THEN u[k] ELSE o[k]]

\* a recalculation that forgets that done is sticky
RecalcStatusIgnoringDone(o, u, now) ==
    IF u.due_at # UNDEF
    THEN [o EXCEPT !.status = IF DateBefore(o.due_at, now) THEN "missed" ELSE "pending"]
    ELSE o

\* a recalculation made on every update, whether it carries a due_at or not
RecalcStatusAlways(o, u, now) ==
    IF o.status # "done"
    THEN [o EXCEPT !.status = IF DateBefore(o.due_at, now) THEN "missed" ELSE "pending"]
    ELSE o

\* an update that leaves the status to the next sweep
RecalcStatusSkipped(o, u, now) == o

\* update's recalculation of the status after the assignment
RecalcStatus(o, u, now) ==
    IF u.due_at # UNDEF /\ o.status # "done"
    THEN [o EXCEPT !.status = IF DateBefore(o.due_at, now) THEN "missed" ELSE "pending"]
    ELSE o

\* toggleDone as the transition table of the specification has it
ToggleStatusPerTable(s) == IF s = "pending" THEN "done" ELSE "pending"

\* a toggleDone that sends a missed obligation back to pending at once
ToggleStatusMissedToPending(s) == IF s = "done" \/ s = "missed" THEN "pending" ELSE "done"

\* a toggleDone that restores missed when the obligation is done
ToggleStatusBackToMissed(s) == IF s = "done" THEN "missed" ELSE "done"

\* a toggleDone that only ever marks done
ToggleStatusOneWay(s) == "done"

\* toggleDone's new status
ToggleStatus(s) == IF s = "done" THEN "pending" ELSE "done"

\* a sweep that closes the obligations that are past due
SweepOneCloses(o, now) ==
    IF /\ o.status # "done"
       /\ Truthy(o.due_at)
       /\ DateBefore(o.due_at, now)
    THEN [o EXCEPT !.status = "done"]
    ELSE o

\* a sweep that overlooks the obligations that are past due
SweepOneOverlooks(o, now) == o

\* a sweep that does not spare the obligations that are done
SweepOneTouchesDone(o, now) ==
    IF /\ Truthy(o.due_at)
       /\ DateBefore(o.due_at, now)
       /\ o.status # "missed"
    THEN [o EXCEPT !.status = "missed"]
    ELSE o

\* the body of updateMissedStatus's forEach for one obligation
SweepOne(o, now) ==
    IF /\ o.status # "done"
       /\ Truthy(o.due_at)
       /\ DateBefore(o.due_at, now)
       /\ o.status # "missed"
    THEN [o EXCEPT !.status = "missed"]
    ELSE o

\* a sweep that stops after the first obligation
SweepFirst(obs, now) ==
    [i \in 1..Len(obs) |-> IF i = 1 THEN SweepOne(obs[i], now) ELSE obs[i]]

\* updateMissedStatus's forEach over the collection
Sweep(obs, now) == [i \in 1..Len(obs) |-> SweepOne(obs[i], now)]

\* splice(index): the obligation at the position and all that follow it go
RemoveFrom(obs, i) == SubSeq(obs, 1, i - 1)

\* splice(index, 1)
RemoveAt(obs, i) == SubSeq(obs, 1, i - 1) \o SubSeq(obs, i + 1, Len(obs))

\* loadSamples' list, abridged to one row of each kind it holds: an overdue
\* row stored as missed and a row stored as pending; ids are nowMs + index
Samples(now) ==
    << [id |-> now, title |-> "Submit expense report", due_at |-> StartClock,
        estimated_duration |-> 15, urgency |-> "normal", status |-> "missed",
        created_at |-> now],
       [id |-> now + 1, title |-> "Pick up dry cleaning", due_at |-> MaxClock + 1,
        estimated_duration |-> 15, urgency |-> "normal", status |-> "pending",
        created_at |-> now + 1] >>

----------------------------------------------------------------------------
(* Operations *)

\* a write of the file may fail while the failure budget lasts
MayFail(ok) == ok \/ budget > 0

\* a save that leaves the file as it was
SaveObligationsSkipped(obs, ok) ==
    /\ persisted' = persisted
    /\ budget' = IF ok THEN budget ELSE budget - 1

\* saveObligations after the collection became obs: the file is rewritten in
\* full, or the write throws and the file keeps its content
SaveObligations(obs, ok) ==
    /\ persisted' = IF ok THEN obs ELSE persisted
    /\ budget' = IF ok THEN budget ELSE budget - 1

Returned(ok) == IF ok THEN "ok" ELSE "throw"

\* the record of a call: prev is the status found at position idx before the
\* call, prev2 the status found there by the call before when that call was a
\* toggleDone of the same position, arg the due_at an update carried or the
\* count a clearAll or a loadSamples returned
Call(op, idx, prev, prev2, arg, ret) ==
    [op |-> op, idx |-> idx, prev |-> prev, prev2 |-> prev2, arg |-> arg, ret |-> ret]

NoCall == Call("init", 0, "none", "none", UNDEF, "ok")

\* new AIParser() at the instant now, with or without an API key
AIParser(now, apiKey) == [now |-> now, apiKey |-> apiKey]

\* new ObligationApp(): nothing pending, nothing loading, no handler waiting
\* for a response, the follow-up section hidden
ObligationApp ==
    [isLoading |-> FALSE, pendingText |-> "null", running |-> << >>, followup |-> FALSE]

\* the server as it starts (the source sets no API key) and a browser that has
\* just loaded the page
Constructed ==
    /\ parser = AIParser(clock, FALSE)
    /\ inflight = << >>
    /\ app = ObligationApp

\* a call of the manager, a rendering and a date helper leave the parser, the
\* requests in flight and the browser's fields alone
Untouched == UNCHANGED <<parser, inflight, app>>

Init ==
    /\ obligations = << >>
    /\ persisted = << >>
    /\ clock = StartClock
    /\ budget = 0
    /\ lastOp = NoCall
    /\ Constructed

\* the instants at which the next call can read the clock
Instants == clock..MaxClock

\* the ids a request can name: each id in the collection, and one that is not
IdInputs == {obligations[i].id : i \in 1..Len(obligations)} \cup {AbsentId}

Add(now, c, ok) ==
    /\ Len(obligations) < MaxObligations
    /\ MayFail(ok)
    /\ clock' = now
    /\ obligations' = Append(obligations, NewObligation(c, now))
    /\ SaveObligations(obligations', ok)
    /\ lastOp' = Call("add", Len(obligations) + 1, "none", "none", UNDEF, Returned(ok))

Update(now, id, u, ok) ==
    LET i == FindIndex(obligations, id) IN
    /\ clock' = now
    /\ IF i = 0
       THEN
         /\ ok
         /\ lastOp' = Call("update", 0, "none", "none", UNDEF, "null")
         /\ UNCHANGED <<obligations, persisted, budget>>
       ELSE
         /\ MayFail(ok)
         /\ obligations' = [obligations EXCEPT
                ![i] = RecalcStatus(AssignUpdates(@, u), u, now)]
         /\ SaveObligations(obligations', ok)
         /\ lastOp' = Call("update", i, obligations[i].status, "none", u.due_at,
                            Returned(ok))

ToggleDone(now, id, ok) ==
    LET i == FindIndex(obligations, id) IN
    /\ clock' = now
    /\ IF i = 0
       THEN
         /\ ok
         /\ lastOp' = Call("toggleDone", 0, "none", "none", UNDEF, "null")
         /\ UNCHANGED <<obligations, persisted, budget>>
       ELSE
         /\ MayFail(ok)
         /\ obligations' = [obligations EXCEPT ![i].status = ToggleStatus(@)]
         /\ SaveObligations(obligations', ok)
         /\ lastOp' = Call("toggleDone", i, obligations[i].status,
                            IF lastOp.op = "toggleDone" /\ lastOp.idx = i
                            THEN lastOp.prev ELSE "none",
                            UNDEF, Returned(ok))

Delete(now, id, ok) ==
    LET i == FindIndex(obligations, id) IN
    /\ clock' = now
    /\ IF i = 0
       THEN
         /\ ok
         /\ lastOp' = Call("delete", 0, "none", "none", UNDEF, "null")
         /\ UNCHANGED <<obligations, persisted, budget>>
       ELSE
         /\ MayFail(ok)
         /\ obligations' = RemoveAt(obligations, i)
         /\ SaveObligations(obligations', ok)
         /\ lastOp' = Call("delete", i, "none", "none", UNDEF, Returned(ok))

\* the first position whose status the sweep changed, 0 when it changed none
FirstChanged(obs, swept) ==
    IF swept = obs
    THEN 0
    ELSE CHOOSE i \in 1..Len(obs) :
            /\ swept[i] # obs[i]
            /\ \A j \in 1..(i - 1) : swept[j] = obs[j]

\* getAll: updateMissedStatus, which saves only when a status changed; the
\* call is recorded with the first position the sweep changed
GetAll(now, ok) ==
    LET swept == Sweep(obligations, now)
        k == FirstChanged(obligations, swept) IN
    /\ clock' = now
    /\ obligations' = swept
    /\ IF swept # obligations
       THEN MayFail(ok) /\ SaveObligations(swept, ok)
       ELSE ok /\ UNCHANGED <<persisted, budget>>
    /\ lastOp' = Call("getAll", k, IF k = 0 THEN "none" ELSE obligations[k].status,
                       "none", UNDEF, Returned(ok))

\* the count in clearAll's result
ClearedCount == 0

ClearAll(now, ok) ==
    /\ MayFail(ok)
    /\ clock' = now
    /\ obligations' = << >>
    /\ SaveObligations(obligations', ok)
    /\ lastOp' = Call("clearAll", 0, "none", "none", ClearedCount, Returned(ok))

LoadSamples(now, ok) ==
    /\ MayFail(ok)
    /\ clock' = now
    /\ obligations' = Samples(now)
    /\ SaveObligations(obligations', ok)
    /\ lastOp' = Call("loadSamples", 0, "none", "none", Len(Samples(now)), Returned(ok))

\* the operations of the store proper (no sample data)
NextStore ==
    \/ \E now \in Instants, c \in Candidates, ok \in BOOLEAN : Add(now, c, ok) /\ Untouched
    \/ \E now \in Instants, id \in IdInputs, u \in UpdateInputs, ok \in BOOLEAN :
          Update(now, id, u, ok) /\ Untouched
    \/ \E now \in Instants, id \in IdInputs, ok \in BOOLEAN : ToggleDone(now, id, ok) /\ Untouched
    \/ \E now \in Instants, id \in IdInputs, ok \in BOOLEAN : Delete(now, id, ok) /\ Untouched
    \/ \E now \in Instants, ok \in BOOLEAN : GetAll(now, ok) /\ Untouched
    \/ \E now \in Instants, ok \in BOOLEAN : ClearAll(now, ok) /\ Untouched

Next ==
    \/ NextStore
    \/ \E now \in Instants, ok \in BOOLEAN : LoadSamples(now, ok) /\ Untouched

Spec == Init /\ [][Next]_vars

SpecStore == Init /\ [][NextStore]_vars

\* the store proper on a disk whose writes can fail
InitFaulty ==
    /\ obligations = << >>
    /\ persisted = << >>
    /\ clock = StartClock
    /\ budget = MaxFailures
    /\ lastOp = NoCall
    /\ Constructed

SpecFaulty == InitFaulty /\ [][NextStore]_vars

\* the whole store, sample data included, on a disk whose writes can fail,
\* driven by the requests that make every kind of mutation happen: an add
\* whose due date the clock passes and an update that moves the date into the
\* future
DurableCandidates ==
    {[title |-> "t", due_at |-> StartClock, estimated_duration |-> 15, urgency |-> "null"]}

DurableUpdates ==
    {[due_at |-> MaxClock + 1, estimated_duration |-> UNDEF]}

NextDurable ==
    \/ \E now \in Instants, c \in DurableCandidates, ok \in BOOLEAN :
          Len(obligations) < MaxHeld /\ Add(now, c, ok) /\ Untouched
    \/ \E now \in Instants, id \in IdInputs, u \in DurableUpdates, ok \in BOOLEAN :
          Update(now, id, u, ok) /\ Untouched
    \/ \E now \in Instants, id \in IdInputs, ok \in BOOLEAN : ToggleDone(now, id, ok) /\ Untouched
    \/ \E now \in Instants, id \in IdInputs, ok \in BOOLEAN : Delete(now, id, ok) /\ Untouched
    \/ \E now \in Instants, ok \in BOOLEAN : GetAll(now, ok) /\ Untouched
    \/ \E now \in Instants, ok \in BOOLEAN : ClearAll(now, ok) /\ Untouched
    \/ \E now \in Instants, ok \in BOOLEAN : LoadSamples(now, ok) /\ Untouched

SpecDurable == InitFaulty /\ [][NextDurable]_vars

\* add as the server reaches it with any text: the candidates above, and the
\* fallback record of a text that is blank after trim, whose title is empty
\* (POST /api/obligations with a blank text and a blank followup)
AddCandidates ==
    Candidates
    \cup {[title |-> "", due_at |-> NULL, estimated_duration |-> NULL, urgency |-> "null"]}

NextAdd ==
    \/ \E now \in Instants, c \in AddCandidates, ok \in BOOLEAN : Add(now, c, ok) /\ Untouched
    \/ \E now \in Instants, id \in IdInputs, ok \in BOOLEAN : ToggleDone(now, id, ok) /\ Untouched
    \/ \E now \in Instants, id \in IdInputs, ok \in BOOLEAN : Delete(now, id, ok) /\ Untouched
    \/ \E now \in Instants, ok \in BOOLEAN : GetAll(now, ok) /\ Untouched

SpecAdd == Init /\ [][NextAdd]_vars

TypeOK ==
    /\ \A i \in 1..Len(obligations) : obligations[i].status \in Statuses
    /\ clock \in StartClock..MaxClock
    /\ budget \in 0..MaxFailures

----------------------------------------------------------------------------
(* Claims about the status machine of the store *)

Positions == 1..Len(obligations)

\* an instant, as opposed to null or undefined
IsInstant(v) == v # NULL /\ v # UNDEF

\* C1: in every state reachable through add, update, toggleDone, delete,
\* clearAll and getAll, an obligation whose status is missed has a due_at that
\* is present and earlier than the most recent evaluation instant (which is
\* not later than the instant of the most recent call); an obligation without
\* a due_at is never missed.
C1_MissedHasPastDue ==
    \A i \in Positions :
        obligations[i].status = "missed" =>
            /\ IsInstant(obligations[i].due_at)
            /\ obligations[i].due_at < clock

\* what remains of C1 when the updates that clear due_at are set aside: a
\* missed obligation that still has a due_at has it before the last evaluation
C1_MissedWithDueIsPast ==
    \A i \in Positions :
        (obligations[i].status = "missed" /\ IsInstant(obligations[i].due_at)) =>
            obligations[i].due_at < clock

\* C2: update(id, {due_at: null}) on an obligation that is pending or missed
\* leaves it pending; an obligation that is done keeps its status.
C2_ClearedDueGivesPending ==
    (lastOp.op = "update" /\ lastOp.idx # 0 /\ lastOp.arg = NULL) =>
        obligations[lastOp.idx].status =
            IF lastOp.prev = "done" THEN "done" ELSE "pending"

\* C3: a call whose write of the file fails has no effect: the collection
\* after it is the collection before it, and the call throws.
C3_FailedWriteHasNoEffect ==
    [][budget' < budget => (obligations' = obligations /\ lastOp'.ret = "throw")]_vars

\* C4: no two obligations of the collection have the same id.
C4_UniqueIds ==
    \A i, j \in Positions : i # j => obligations[i].id # obligations[j].id

\* C5: a done obligation stays done across getAll and across any update (of
\* due_at to a past instant, a future instant or null); among the calls that
\* keep the positions of the collection only a toggleDone of that obligation
\* changes its status.
C5_DoneIsSticky ==
    [][\A i \in Positions :
          (/\ obligations[i].status = "done"
           /\ \/ lastOp'.op \in {"add", "update", "getAll"}
              \/ (lastOp'.op = "toggleDone" /\ lastOp'.idx # i))
          => (/\ i \in 1..Len(obligations')
              /\ obligations'[i].status = "done")]_vars

\* an update that carried a past due_at has just returned on a done obligation
C5_Witness ==
    /\ lastOp.op = "update" /\ lastOp.idx # 0 /\ lastOp.prev = "done"
    /\ IsInstant(lastOp.arg) /\ lastOp.arg < clock
    /\ obligations[lastOp.idx].due_at = lastOp.arg
    /\ obligations[lastOp.idx].status = "done"

\* C6 as stated: toggleDone on a missed obligation sets its status to pending.
C6_MissedTogglesToPending ==
    (lastOp.op = "toggleDone" /\ lastOp.idx # 0 /\ lastOp.prev = "missed") =>
        obligations[lastOp.idx].status = "pending"

\* C6 amended: a toggleDone step on a missed obligation sets its status to
\* done, not pending; the step changes nothing else of the obligation.
C6_MissedToggleStepGivesDone ==
    [][\A i \in Positions :
          (/\ obligations[i].status = "missed"
           /\ lastOp'.op = "toggleDone" /\ lastOp'.idx = i)
          => (/\ obligations'[i].status # "pending"
              /\ obligations'[i] = [obligations[i] EXCEPT !.status = "done"])]_vars

\* a toggleDone has just returned on an obligation that was missed with a due
\* date in the past
C6_Witness ==
    /\ lastOp.op = "toggleDone" /\ lastOp.idx # 0 /\ lastOp.prev = "missed"
    /\ IsInstant(obligations[lastOp.idx].due_at)
    /\ obligations[lastOp.idx].due_at < clock

\* C7: toggleDone on a missed obligation sets its status to done.
C7_MissedTogglesToDone ==
    (lastOp.op = "toggleDone" /\ lastOp.idx # 0 /\ lastOp.prev = "missed") =>
        obligations[lastOp.idx].status = "done"

\* a toggleDone has just returned on an obligation that was missed
C7_Witness ==
    /\ lastOp.op = "toggleDone" /\ lastOp.idx # 0 /\ lastOp.prev = "missed"
    /\ lastOp.ret = "ok"
    /\ obligations[lastOp.idx].status = "done"

\* C8: two consecutive toggleDone calls on a missed obligation (to done and
\* back) leave it pending with its due_at unchanged, also when the due_at is
\* in the past; no toggleDone ever produces missed, and the next getAll turns
\* the pending obligation whose due_at is past into missed again.
C8_ToggleTwiceGivesPending ==
    [][/\ \A i \in Positions :
            \* the second of the two calls
            (/\ lastOp.op = "toggleDone" /\ lastOp.idx = i /\ lastOp.prev = "missed"
             /\ lastOp'.op = "toggleDone" /\ lastOp'.idx = i /\ lastOp'.prev = "done")
            => (/\ obligations'[i].status = "pending"
                /\ obligations'[i].due_at = obligations[i].due_at)
       /\ \A i \in Positions :
            \* no toggleDone produces missed
            (lastOp'.op = "toggleDone" /\ obligations[i].status # "missed")
            => obligations'[i].status # "missed"
       /\ \A i \in Positions :
            \* the getAll that follows the two calls
            (/\ lastOp.op = "toggleDone" /\ lastOp.idx = i
             /\ lastOp.prev = "done" /\ lastOp.prev2 = "missed"
             /\ IsInstant(obligations[i].due_at) /\ obligations[i].due_at < clock'
             /\ lastOp'.op = "getAll")
            => obligations'[i].status = "missed"]_vars

\* the second toggleDone has just returned on an obligation that was missed
\* before the first, and its due date is in the past
C8_Witness ==
    /\ lastOp.op = "toggleDone" /\ lastOp.idx # 0
    /\ lastOp.prev = "done" /\ lastOp.prev2 = "missed"
    /\ obligations[lastOp.idx].status = "pending"
    /\ IsInstant(obligations[lastOp.idx].due_at)
    /\ obligations[lastOp.idx].due_at < clock

\* C9: update(id, {due_at: d}) with d an instant, on an obligation that is
\* not done, makes it missed when d is earlier than the instant of the update
\* and pending when d is later, whatever its status was.
C9_UpdateDueRederivesStatus ==
    (/\ lastOp.op = "update" /\ lastOp.idx # 0
     /\ lastOp.prev # "done" /\ IsInstant(lastOp.arg)) =>
        /\ obligations[lastOp.idx].due_at = lastOp.arg
        /\ lastOp.arg < clock => obligations[lastOp.idx].status = "missed"
        /\ lastOp.arg > clock => obligations[lastOp.idx].status = "pending"

\* an update has just made a pending obligation missed
C9_WitnessToMissed ==
    /\ lastOp.op = "update" /\ lastOp.idx # 0 /\ lastOp.prev = "pending"
    /\ IsInstant(lastOp.arg) /\ lastOp.arg < clock
    /\ obligations[lastOp.idx].status = "missed"

\* an update has just made a missed obligation pending
C9_WitnessToPending ==
    /\ lastOp.op = "update" /\ lastOp.idx # 0 /\ lastOp.prev = "missed"
    /\ IsInstant(lastOp.arg) /\ lastOp.arg > clock
    /\ obligations[lastOp.idx].status = "pending"

\* C10: toggleDone on a pending obligation makes it done and on a done
\* obligation makes it pending; no other field of it and no other obligation
\* of the collection changes.
C10_ToggleFlipsOnlyStatus ==
    [][\A i \in Positions :
          (lastOp'.op = "toggleDone" /\ lastOp'.idx = i) =>
              /\ Len(obligations') = Len(obligations)
              /\ obligations[i].status = "pending" => obligations'[i].status = "done"
              /\ obligations[i].status = "done" => obligations'[i].status = "pending"
              /\ obligations'[i] =
                     [obligations[i] EXCEPT !.status = obligations'[i].status]
              /\ \A j \in Positions : j # i => obligations'[j] = obligations[j]]_vars

\* a toggleDone has just made a done obligation pending while another
\* obligation is in the collection
C10_Witness ==
    /\ lastOp.op = "toggleDone" /\ lastOp.idx # 0 /\ lastOp.prev = "done"
    /\ obligations[lastOp.idx].status = "pending"
    /\ Len(obligations) > 1

----------------------------------------------------------------------------
(* Claims about the operations of the store *)

\* C11: a getAll that returns, evaluated at instant t, has turned every
\* pending obligation whose due_at is earlier than t into missed, has written
\* the collection to the file when the sweep changed a status, and hands back
\* the whole collection in insertion order: the same obligations at the same
\* positions, differing from before in their status at most.
C11_GetAllSweepsAndPersists ==
    [][(lastOp'.op = "getAll" /\ lastOp'.ret = "ok") =>
          /\ Len(obligations') = Len(obligations)
          /\ \A i \in Positions :
                /\ (/\ obligations[i].status = "pending"
                    /\ IsInstant(obligations[i].due_at)
                    /\ obligations[i].due_at < clock')
                   => obligations'[i].status = "missed"
                /\ obligations'[i] =
                       [obligations[i] EXCEPT !.status = obligations'[i].status]
          /\ obligations' # obligations => persisted' = obligations']_vars

\* a getAll has just returned whose sweep turned a pending obligation into
\* missed, and the file holds the collection
C11_Witness ==
    /\ lastOp.op = "getAll" /\ lastOp.ret = "ok"
    /\ lastOp.idx # 0 /\ lastOp.prev = "pending"
    /\ obligations[lastOp.idx].status = "missed"
    /\ obligations[lastOp.idx].due_at < clock
    /\ persisted = obligations

\* C12: whenever a mutation has returned normally (add, update, toggleDone or
\* delete of an obligation that exists, clearAll, loadSamples, or a getAll
\* whose sweep changed a status), the file holds the in-memory collection,
\* also when earlier writes had failed.
C12_ReturnedMutationIsDurable ==
    (/\ lastOp.ret = "ok"
     /\ \/ lastOp.op \in {"add", "clearAll", "loadSamples"}
        \/ (lastOp.op \in {"update", "toggleDone", "delete", "getAll"} /\ lastOp.idx # 0))
    => persisted = obligations

\* a toggleDone has just returned normally after an earlier write had failed,
\* and the file holds the collection
C12_Witness ==
    /\ lastOp.op = "toggleDone" /\ lastOp.ret = "ok" /\ lastOp.idx # 0
    /\ budget < MaxFailures
    /\ obligations # << >>
    /\ persisted = obligations

\* C13: update, toggleDone and delete called with an id that no obligation
\* has return the not-found value (null) without throwing, leave the
\* collection as it was and do not write the file.
C13_AbsentIdIsNotFound ==
    [][\A ok \in BOOLEAN :
          (\/ /\ lastOp'.op = "update"
              /\ \E u \in UpdateInputs : Update(clock', AbsentId, u, ok)
           \/ /\ lastOp'.op = "toggleDone"
              /\ ToggleDone(clock', AbsentId, ok)
           \/ /\ lastOp'.op = "delete"
              /\ Delete(clock', AbsentId, ok))
          => (/\ lastOp'.ret = "null"
              /\ obligations' = obligations
              /\ persisted' = persisted
              /\ budget' = budget)]_vars

\* a delete of an absent id has just returned null while the collection holds
\* an obligation the file lacks: the call rewrote neither
C13_Witness ==
    /\ lastOp.op = "delete" /\ lastOp.ret = "null" /\ lastOp.idx = 0
    /\ obligations # << >>
    /\ persisted # obligations

\* C14: clearAll empties the collection and returns the number of obligations
\* it removed, the size of the collection just before the call.
C14_ClearAllReturnsRemovedCount ==
    [][(lastOp'.op = "clearAll" /\ lastOp'.ret = "ok") =>
          (/\ obligations' = << >>
           /\ lastOp'.arg = Len(obligations))]_vars

\* what holds of clearAll: it empties the collection and the file
C14_ClearAllEmpties ==
    (lastOp.op = "clearAll" /\ lastOp.ret = "ok") =>
        (obligations = << >> /\ persisted = << >>)

C16_AddAppendsPending ==
    [][lastOp'.op = "add" =>
          LET n == Len(obligations) IN
          /\ Len(obligations') = n + 1
          /\ lastOp'.idx = n + 1
          /\ \A i \in Positions : obligations'[i] = obligations[i]
          /\ obligations'[n + 1].status = "pending"
          /\ obligations'[n + 1].title # ""]_vars

\* an add has just appended, after an obligation created from an empty title,
\* an obligation whose due date was already past, and it is pending
C16_Witness ==
    /\ lastOp.op = "add" /\ lastOp.ret = "ok"
    /\ Len(obligations) > 1 /\ lastOp.idx = Len(obligations)
    /\ obligations[1].title = "Untitled obligation"
    /\ IsInstant(obligations[lastOp.idx].due_at)
    /\ obligations[lastOp.idx].due_at < clock
    /\ obligations[lastOp.idx].status = "pending"

\* C17: add called with a candidate whose title is empty fails with a
\* validation error and leaves the collection unchanged.
C17_EmptyTitleIsRejected ==
    [][\A now \in Instants, ok \in BOOLEAN, c \in AddCandidates :
          (c.title = "" /\ Add(now, c, ok)) =>
              (obligations' = obligations /\ lastOp'.ret # "ok")]_vars

\* C18: once an obligation exists, no add, update, toggleDone, getAll or
\* delete of another obligation changes its id or its created_at, whatever
\* the request carries.
C18_IdAndCreatedAtAreImmutable ==
    [][LET k == lastOp'.idx IN
       /\ lastOp'.op \in {"add", "update", "toggleDone", "getAll"} =>
             \A i \in Positions :
                 /\ i \in 1..Len(obligations')
                 /\ obligations'[i].id = obligations[i].id
                 /\ obligations'[i].created_at = obligations[i].created_at
       /\ lastOp'.op = "delete" =>
             \A i \in Positions :
                 /\ (k = 0 \/ i < k) =>
                        /\ obligations'[i].id = obligations[i].id
                        /\ obligations'[i].created_at = obligations[i].created_at
                 /\ (k # 0 /\ i > k) =>
                        /\ obligations'[i - 1].id = obligations[i].id
                        /\ obligations'[i - 1].created_at = obligations[i].created_at]_vars

\* an update that carried a due date has just returned on an obligation
\* created at an earlier instant, which still has the id and the created_at
\* of that instant
C18_Witness ==
    /\ lastOp.op = "update" /\ lastOp.ret = "ok" /\ lastOp.idx # 0
    /\ lastOp.arg # UNDEF
    /\ obligations[lastOp.idx].id = StartClock
    /\ obligations[lastOp.idx].created_at = StartClock
    /\ clock > StartClock

\* C19: an obligation's status becomes done only as the direct result of
\* toggleDone on that obligation: after an add, an update or a getAll every
\* done obligation was done before, a toggleDone makes none but its own
\* obligation done, and the obligations a delete leaves were done before if
\* they are done after.
C19_DoneOnlyByToggle ==
    [][LET k == lastOp'.idx IN
       /\ lastOp'.op \in {"add", "update", "getAll"} =>
             \A i \in 1..Len(obligations') :
                 obligations'[i].status = "done" =>
                     (i \in Positions /\ obligations[i].status = "done")
       /\ lastOp'.op = "toggleDone" =>
             \A i \in Positions :
                 (obligations'[i].status = "done" /\ obligations[i].status # "done")
                 => i = k
       /\ lastOp'.op = "delete" =>
             \A i \in 1..Len(obligations') :
                 obligations'[i].status = "done" =>
                     obligations[IF k = 0 \/ i < k THEN i ELSE i + 1].status = "done"]_vars

\* a getAll has just swept a pending obligation into missed while another
\* obligation, made done by a toggleDone, is still done
C19_Witness ==
    /\ lastOp.op = "getAll" /\ lastOp.idx # 0 /\ lastOp.prev = "pending"
    /\ obligations[lastOp.idx].status = "missed"
    /\ \E i \in Positions : obligations[i].status = "done"

\* C20: an update whose changed fields do not include due_at (only
\* estimated_duration) leaves the obligation's status as it found it, also
\* when the status is missed and also when a pending obligation's due_at is
\* already in the past.
C20_UpdateWithoutDueKeepsStatus ==
    (lastOp.op = "update" /\ lastOp.idx # 0 /\ lastOp.arg = UNDEF) =>
        obligations[lastOp.idx].status = lastOp.prev

\* an update of the duration alone has just returned on a pending obligation
\* whose due date is past, and the obligation is still pending
C20_Witness ==
    /\ lastOp.op = "update" /\ lastOp.ret = "ok" /\ lastOp.idx # 0
    /\ lastOp.arg = UNDEF /\ lastOp.prev = "pending"
    /\ IsInstant(obligations[lastOp.idx].due_at)
    /\ obligations[lastOp.idx].due_at < clock
    /\ obligations[lastOp.idx].estimated_duration = NULL
    /\ obligations[lastOp.idx].status = "pending"

\* an update of the duration alone has just returned on a missed obligation,
\* and the obligation is still missed
C20_WitnessMissed ==
    /\ lastOp.op = "update" /\ lastOp.ret = "ok" /\ lastOp.idx # 0
    /\ lastOp.arg = UNDEF /\ lastOp.prev = "missed"
    /\ obligations[lastOp.idx].status = "missed"

----------------------------------------------------------------------------
(* The time-horizon grouping of the browser (ObligationApp.groupByTimeHorizon, *)
(* src/unnamed/part_002) and of the CLI (listObligations,                     *)
(* src/unnamed/part_001).  In the specification SpecView an instant is a      *)
(* whole minute of local time counted from a local midnight; the host's zone  *)
(* has a fixed offset (no daylight-saving change falls in the days looked     *)
(* at), so a local day is MinutesPerDay minutes long.  The variable           *)
(* obligations is the list the view was handed (the response of               *)
(* GET /api/obligations), clock the instant at which the view reads           *)
(* new Date(), and lastOp the grouping the view has computed.                 *)

\* the lists drawn hold at most MaxListed obligations
MaxListed == 2
\* the evaluation instants drawn are the full hours 0..MaxHour of the first day
MaxHour == 23
\* the reference instants of SpecDates lie in the MaxRefYears years that start
\* with FirstRefYear
MaxRefYears == 3

MinutesPerHour == 60
HoursPerDay == 24
MinutesPerDay == HoursPerDay * MinutesPerHour
DaysPerWeek == 7
\* the hoursUntil below which an obligation is due now
NowWindowHours == 2

\* new Date(9999999999999), the sort key of an undated obligation, in minutes
FarFuture == 166666666

\* new Date(y, m, d, 0, 0, 0, 0) of a local instant: the midnight that starts
\* its local day
LocalMidnight(t) == (t \div MinutesPerDay) * MinutesPerDay

BucketNames == {"missed", "now", "today", "thisWeek", "later"}

\* a bucketing whose window for now is one hour
BucketWithNarrowWindow(o, now, tomorrow, weekFromNow) ==
    IF o.status = "missed" THEN "missed"
    ELSE IF o.status = "done" THEN "none"
    ELSE IF Truthy(o.due_at) THEN
        IF o.due_at - now < 0 THEN "missed"
        ELSE IF o.due_at - now < MinutesPerHour THEN "now"
        ELSE IF o.due_at < tomorrow THEN "today"
        ELSE IF o.due_at < weekFromNow THEN "thisWeek"
        ELSE "later"
    ELSE "later"

\* a bucketing that tests the end of the day before the two-hour window
BucketWithTodayFirst(o, now, tomorrow, weekFromNow) ==
    IF o.status = "missed" THEN "missed"
    ELSE IF o.status = "done" THEN "none"
    ELSE IF Truthy(o.due_at) THEN
        IF o.due_at - now < 0 THEN "missed"
        ELSE IF o.due_at < tomorrow THEN "today"
        ELSE IF o.due_at - now < NowWindowHours * MinutesPerHour THEN "now"
        ELSE IF o.due_at < weekFromNow THEN "thisWeek"
        ELSE "later"
    ELSE "later"

\* a bucketing that files a done obligation by its date like any other
BucketWithDoneFiled(o, now, tomorrow, weekFromNow) ==
    IF o.status = "missed" THEN "missed"
    ELSE IF Truthy(o.due_at) THEN
        IF o.due_at - now < 0 THEN "missed"
        ELSE IF o.due_at - now < NowWindowHours * MinutesPerHour THEN "now"
        ELSE IF o.due_at < tomorrow THEN "today"
        ELSE IF o.due_at < weekFromNow THEN "thisWeek"
        ELSE "later"
    ELSE "later"

\* the branch the forEach body takes for one obligation, given the two
\* boundaries: the name of the bucket it is pushed to, "none" for a done one
BucketWith(o, now, tomorrow, weekFromNow) ==
    IF o.status = "missed" THEN "missed"
    ELSE IF o.status = "done" THEN "none"
    ELSE IF Truthy(o.due_at) THEN
        IF o.due_at - now < 0 THEN "missed"
        ELSE IF o.due_at - now < NowWindowHours * MinutesPerHour THEN "now"
        ELSE IF o.due_at < tomorrow THEN "today"
        ELSE IF o.due_at < weekFromNow THEN "thisWeek"
        ELSE "later"
    ELSE "later"

\* the browser's boundaries are local midnights: the one that starts tomorrow
\* and the one seven days after today's
BrowserBucket(o, now) ==
    BucketWith(o, now,
               LocalMidnight(now) + MinutesPerDay,
               LocalMidnight(now) + DaysPerWeek * MinutesPerDay)

\* the CLI's boundaries are now moved one day and seven days ahead
\* (setDate on a copy of now keeps the time of day)
CliBucket(o, now) ==
    BucketWith(o, now, now + MinutesPerDay, now + DaysPerWeek * MinutesPerDay)

\* the sort key of the browser's comparator
SortKey(o) == IF Truthy(o.due_at) THEN o.due_at ELSE FarFuture

RECURSIVE InsertByKey(_, _)
\* o put into the sorted sequence q after every element whose key is not
\* greater (the sort is stable)
InsertByKey(q, o) ==
    IF q = << >> THEN << o >>
    ELSE IF SortKey(Head(q)) <= SortKey(o)
         THEN << Head(q) >> \o InsertByKey(Tail(q), o)
         ELSE << o >> \o q

RECURSIVE SortByDue(_)
\* groups[key].sort((a, b) => aDate - bDate)
SortByDue(q) ==
    IF q = << >> THEN << >>
    ELSE InsertByKey(SortByDue(SubSeq(q, 1, Len(q) - 1)), q[Len(q)])

\* the obligations of a list that groupByTimeHorizon pushes to one bucket, in
\* the order of the list
BrowserPushed(obs, name, now) ==
    SelectSeq(obs, LAMBDA o : BrowserBucket(o, now) = name)

\* the same for the loop of listObligations
CliPushed(obs, name, now) ==
    SelectSeq(obs, LAMBDA o : CliBucket(o, now) = name)

\* groupByTimeHorizon(obligations) evaluated at now
GroupByTimeHorizonOf(obs, now) ==
    [name \in BucketNames |-> SortByDue(BrowserPushed(obs, name, now))]

\* the groups listObligations prints, in the order it prints each
ListObligationsOf(obs, now) ==
    [name \in BucketNames |-> CliPushed(obs, name, now)]

\* the evaluation instants drawn: the full hours of the first day
ViewInstants == {h * MinutesPerHour : h \in 0..MaxHour}

\* the due instants drawn: 10:00 and 23:59 of the first day, the midnight that
\* ends it, 00:05 and 00:30 of the second day, and the minute before and the
\* minute of the midnight seven days after the first
ViewDues ==
    {10 * MinutesPerHour, MinutesPerDay - 1, MinutesPerDay, MinutesPerDay + 5,
     MinutesPerDay + 30, DaysPerWeek * MinutesPerDay - 1, DaysPerWeek * MinutesPerDay}

\* the obligations drawn: pending with each due instant and without one,
\* missed with a due instant and without one (C1), done
ViewKinds ==
    {[status |-> "pending", due_at |-> d] : d \in ViewDues \cup {NULL}}
    \cup {[status |-> "missed", due_at |-> d] : d \in {10 * MinutesPerHour, NULL}}
    \cup {[status |-> "done", due_at |-> MinutesPerDay - 1]}

\* an obligation of the list handed to the view; its id is its position
ViewObligation(k, i) ==
    [id |-> i, title |-> "t", due_at |-> k.due_at, estimated_duration |-> NULL,
     urgency |-> "null", status |-> k.status, created_at |-> Epoch]

ViewLists ==
    {<< >>} \cup
    UNION {{[i \in 1..n |-> ViewObligation(f[i], i)] : f \in [1..n -> ViewKinds]} :
              n \in 1..MaxListed}

InitView ==
    /\ clock \in ViewInstants
    /\ obligations \in ViewLists
    /\ persisted = obligations
    /\ budget = 0
    /\ lastOp = NoCall
    /\ Constructed

\* the browser renders: render() groups this.obligations at new Date()
GroupByTimeHorizon ==
    /\ lastOp' = Call("groupByTimeHorizon", 0, "none", "none", clock,
                      GroupByTimeHorizonOf(obligations, clock))
    /\ UNCHANGED <<obligations, persisted, clock, budget>>
    /\ Untouched

\* the CLI lists: listObligations groups the response at new Date()
ListObligations ==
    /\ lastOp' = Call("listObligations", 0, "none", "none", clock,
                      ListObligationsOf(obligations, clock))
    /\ UNCHANGED <<obligations, persisted, clock, budget>>
    /\ Untouched

NextView ==
    \/ GroupByTimeHorizon
    \/ ListObligations

SpecView == InitView /\ [][NextView]_vars

\* a grouping has been computed
Grouped == lastOp.op \in {"groupByTimeHorizon", "listObligations"}

\* the number of places an obligation has in the buckets of a grouping
Places(groups, o) ==
    Cardinality({<<name, j>> \in BucketNames \X (1..MaxListed + 1) :
                    j <= Len(groups[name]) /\ groups[name][j] = o})

\* C21: for every evaluation instant and every list, the grouping (the
\* browser's and the CLI's) places each obligation whose status is pending or
\* missed in exactly one of the five buckets and places no obligation whose
\* status is done in any bucket.
C21_EachOpenObligationInOneBucket ==
    Grouped =>
        \A i \in Positions :
            Places(lastOp.ret, obligations[i]) =
                IF obligations[i].status = "done" THEN 0 ELSE 1

\* the browser has grouped a list that holds a done obligation and an
\* obligation that is not done, which is in a bucket
C21_Witness ==
    /\ lastOp.op = "groupByTimeHorizon"
    /\ \E i, j \in Positions :
          /\ obligations[i].status = "done"
          /\ obligations[j].status # "done"
          /\ Places(lastOp.ret, obligations[j]) = 1

\* the dated obligations of a bucket are in ascending order of due instant and
\* every undated one comes after all dated ones
Ordered(q) ==
    \A j, k \in 1..Len(q) :
        j < k =>
            /\ (Truthy(q[j].due_at) /\ Truthy(q[k].due_at)) => q[j].due_at <= q[k].due_at
            /\ ~Truthy(q[j].due_at) => ~Truthy(q[k].due_at)

\* C22: within each of the five buckets, in the grouping shown by the browser
\* and in the listing printed by the CLI, the dated obligations appear in
\* ascending order of due instant and every undated obligation appears after
\* all dated ones of that bucket.
C22_BucketsAreOrdered ==
    Grouped => \A name \in BucketNames : Ordered(lastOp.ret[name])

\* what holds of C22: the buckets of the browser's grouping are ordered
C22_BrowserBucketsAreOrdered ==
    lastOp.op = "groupByTimeHorizon" =>
        \A name \in BucketNames : Ordered(lastOp.ret[name])

\* the obligation is in the named bucket of a grouping
InBucket(groups, name, o) ==
    \E j \in 1..Len(groups[name]) : groups[name][j] = o

\* the bucket the rules of the grouping give an obligation at instant now,
\* first match first
FirstMatchingRule(o, now) ==
    CASE o.status = "missed" -> "missed"
      [] o.status # "missed" /\ o.status = "done" -> "none"
      [] o.status \notin {"missed", "done"} /\ ~Truthy(o.due_at) -> "later"
      [] OTHER ->
            IF o.due_at < now THEN "missed"
            ELSE IF o.due_at < now + NowWindowHours * MinutesPerHour THEN "now"
            ELSE IF o.due_at < LocalMidnight(now) + MinutesPerDay THEN "today"
            ELSE IF o.due_at < LocalMidnight(now) + DaysPerWeek * MinutesPerDay
                 THEN "thisWeek"
            ELSE "later"

\* C23: the browser's grouping gives each obligation the bucket of the first
\* matching rule, in this order: status missed gives missed; status done
\* gives no bucket; no due_at gives later; due_at before the evaluation
\* instant gives missed; less than 2 hours until due gives now; due_at before
\* the local midnight that starts tomorrow gives today; due_at before the
\* local midnight seven days after today gives thisWeek; otherwise later.
C23_BrowserBucketIsFirstMatchingRule ==
    lastOp.op = "groupByTimeHorizon" =>
        \A i \in Positions :
            LET rule == FirstMatchingRule(obligations[i], clock) IN
            \A name \in BucketNames :
                InBucket(lastOp.ret, name, obligations[i]) <=> (name = rule)

\* the browser has grouped, late in the evening, an obligation due before
\* midnight within two hours (in now, not in today) and one due just after
\* the midnight seven days ahead (in later)
C23_Witness ==
    /\ lastOp.op = "groupByTimeHorizon"
    /\ \E i, j \in Positions :
          /\ obligations[i].status = "pending"
          /\ obligations[i].due_at = MinutesPerDay - 1
          /\ InBucket(lastOp.ret, "now", obligations[i])
          /\ obligations[j].status = "pending"
          /\ obligations[j].due_at = DaysPerWeek * MinutesPerDay
          /\ InBucket(lastOp.ret, "later", obligations[j])

\* 90 minutes
NinetyMinutes == MinutesPerHour + MinutesPerHour \div 2

\* C24: a pending obligation due 90 minutes after the evaluation instant is
\* placed in bucket now, by the browser and by the CLI, also when that due
\* time lies after the coming local midnight.
C24_DueInNinetyMinutesIsNow ==
    Grouped =>
        \A i \in Positions :
            (/\ obligations[i].status = "pending"
             /\ Truthy(obligations[i].due_at)
             /\ obligations[i].due_at = clock + NinetyMinutes)
            => (/\ InBucket(lastOp.ret, "now", obligations[i])
                /\ Places(lastOp.ret, obligations[i]) = 1)

\* the browser has grouped at 23:00 an obligation due at 00:30 of the next
\* day, and it is in now
C24_Witness ==
    /\ lastOp.op = "groupByTimeHorizon"
    /\ \E i \in Positions :
          /\ obligations[i].status = "pending"
          /\ obligations[i].due_at = clock + NinetyMinutes
          /\ obligations[i].due_at >= LocalMidnight(clock) + MinutesPerDay
          /\ InBucket(lastOp.ret, "now", obligations[i])

\* the CLI has listed at 23:00 an obligation due at 00:30 of the next day,
\* and it is in now
C24_WitnessCli ==
    /\ lastOp.op = "listObligations"
    /\ \E i \in Positions :
          /\ obligations[i].status = "pending"
          /\ obligations[i].due_at = clock + NinetyMinutes
          /\ obligations[i].due_at >= LocalMidnight(clock) + MinutesPerDay
          /\ InBucket(lastOp.ret, "now", obligations[i])

\* two obligations of the list share a bucket of a grouping
SameBucket(groups, a, b) ==
    \E name \in BucketNames : InBucket(groups, name, a) /\ InBucket(groups, name, b)

\* 23:59 of the local day of instant t, and 00:05 of the day after
LastMinuteOfDay(t) == LocalMidnight(t) + MinutesPerDay - 1
FivePastMidnight(t) == LocalMidnight(t) + MinutesPerDay + 5

\* C25: two pending obligations due at 23:59 today and at 00:05 tomorrow
\* (local time) are placed in different buckets, by the browser and by the
\* CLI, for every evaluation instant earlier on the same local day.
C25_AcrossMidnightInDifferentBuckets ==
    Grouped =>
        \A i, j \in Positions :
            (/\ obligations[i].status = "pending"
             /\ obligations[j].status = "pending"
             /\ obligations[i].due_at = LastMinuteOfDay(clock)
             /\ obligations[j].due_at = FivePastMidnight(clock)
             /\ clock < LastMinuteOfDay(clock))
            => ~SameBucket(lastOp.ret, obligations[i], obligations[j])

\* what holds of C25: the browser separates the two as long as 00:05 is two
\* hours or more away
C25_BrowserSeparatesBeforeWindow ==
    lastOp.op = "groupByTimeHorizon" =>
        \A i, j \in Positions :
            (/\ obligations[i].status = "pending"
             /\ obligations[j].status = "pending"
             /\ obligations[i].due_at = LastMinuteOfDay(clock)
             /\ obligations[j].due_at = FivePastMidnight(clock)
             /\ clock + NowWindowHours * MinutesPerHour <= FivePastMidnight(clock))
            => ~SameBucket(lastOp.ret, obligations[i], obligations[j])

\* C25 for the browser alone, which fails late in the evening
C25_BrowserSeparatesAllDay ==
    lastOp.op = "groupByTimeHorizon" =>
        \A i, j \in Positions :
            (/\ obligations[i].status = "pending"
             /\ obligations[j].status = "pending"
             /\ obligations[i].due_at = LastMinuteOfDay(clock)
             /\ obligations[j].due_at = FivePastMidnight(clock)
             /\ clock < LastMinuteOfDay(clock))
            => ~SameBucket(lastOp.ret, obligations[i], obligations[j])

\* C26: for every evaluation instant and every obligation, the CLI listing
\* and the browser grouping place the obligation in the same bucket.
C26_CliAndBrowserAgree ==
    lastOp.op = "listObligations" =>
        \A i \in Positions, name \in BucketNames :
            InBucket(lastOp.ret, name, obligations[i])
            <=> InBucket(GroupByTimeHorizonOf(obligations, clock), name, obligations[i])

\* what holds of C26: the two views agree when the evaluation instant is a
\* local midnight, where the boundaries of the two coincide
C26_CliAndBrowserAgreeAtMidnight ==
    (lastOp.op = "listObligations" /\ clock = LocalMidnight(clock)) =>
        \A i \in Positions, name \in BucketNames :
            InBucket(lastOp.ret, name, obligations[i])
            <=> InBucket(GroupByTimeHorizonOf(obligations, clock), name, obligations[i])

----------------------------------------------------------------------------
(* The date helpers (src/src/helpers/dateUtils.js).  A Date is an instant in  *)
(* whole minutes of universal time since 1 January 1970; the host's zone is   *)
(* an offset in minutes east of Greenwich, fixed over the dates looked at.    *)
(* The local getters and the local constructor of Date are modelled on the    *)
(* proleptic Gregorian calendar.                                              *)

\* the year Date counts from, and the weekday of its first day (a Thursday;
\* getDay counts Sunday as 0)
EpochYear == 1970
EpochWeekday == 4
MonthsPerYear == 12

LeapYear(y) == (y % 4 = 0 /\ y % 100 # 0) \/ y % 400 = 0

DaysInMonth(y, m) ==
    IF m = 2 THEN (IF LeapYear(y) THEN 29 ELSE 28)
    ELSE IF m \in {4, 6, 9, 11} THEN 30 ELSE 31

\* the leap years among the years 1..y
LeapsThrough(y) == y \div 4 - y \div 100 + y \div 400

\* the days from 1 January of the epoch year to 1 January of year y
DaysBeforeYear(y) ==
    365 * (y - EpochYear) + LeapsThrough(y - 1) - LeapsThrough(EpochYear - 1)

\* the days from 1 January to the first of each month in a year without a
\* leap day
CommonDaysBefore == << 0, 31, 59, 90, 120, 151, 181, 212, 243, 273, 304, 334 >>

\* the days from 1 January of year y to the first of month m of that year
DaysBeforeMonth(y, m) ==
    CommonDaysBefore[m] + (IF m > 2 /\ LeapYear(y) THEN 1 ELSE 0)

\* the day number (days since the epoch day) of a calendar date that exists
DaysFromCivil(y, m, d) == DaysBeforeYear(y) + DaysBeforeMonth(y, m) + d - 1

\* the year a day number lies in
YearOfDay(n) ==
    LET a == EpochYear + n \div 366
        b == EpochYear + n \div 365
    IN  CHOOSE c \in ((IF a < b THEN a ELSE b) - 1)..((IF a < b THEN b ELSE a) + 1) :
            DaysBeforeYear(c) <= n /\ n < DaysBeforeYear(c + 1)

\* the month of year y its day r lies in, r counted from 0
MonthOfDay(y, r) ==
    CHOOSE c \in 1..MonthsPerYear :
        /\ DaysBeforeMonth(y, c) <= r
        /\ r < DaysBeforeMonth(y, c) + DaysInMonth(y, c)

\* the calendar date of day r of year y, which lies in month m
CivilInMonth(y, m, r) == [year |-> y, month |-> m, day |-> r - DaysBeforeMonth(y, m) + 1]

\* the calendar date of day r of year y
CivilInYear(y, r) == CivilInMonth(y, MonthOfDay(y, r), r)

\* the calendar date of day number n, which lies in year y
CivilOfDay(y, n) == CivilInYear(y, n - DaysBeforeYear(y))

\* the calendar date of a day number
CivilFromDays(n) == CivilOfDay(YearOfDay(n), n)

\* the local day number of an instant in a zone
LocalDay(t, zone) == (t + zone) \div MinutesPerDay

\* getFullYear, getMonth + 1 and getDate of an instant
LocalFields(t, zone) == CivilFromDays(LocalDay(t, zone))

\* getDay of an instant: 0 for Sunday
GetDay(t, zone) == (LocalDay(t, zone) + EpochWeekday) % DaysPerWeek

\* a constructor that stops a day beyond the end of the month at the month's
\* last day
NewLocalDateClamped(year, month, day, zone) ==
    LET y == IF year \in 0..99 THEN 1900 + year ELSE year
        d == IF day > DaysInMonth(y, month) THEN DaysInMonth(y, month) ELSE day
    IN  (DaysFromCivil(y, month, 1) + d - 1) * MinutesPerDay - zone

\* a constructor that carries a day beyond the end of February as if February
\* had 28 days in every year
NewLocalDateCommonYear(year, month, day, zone) ==
    LET y == IF year \in 0..99 THEN 1900 + year ELSE year IN
    IF month = 2 /\ day > 28
    THEN (DaysFromCivil(y, 3, 1) + day - 29) * MinutesPerDay - zone
    ELSE (DaysFromCivil(y, month, 1) + day - 1) * MinutesPerDay - zone

\* new Date(year, monthIndex, day): the instant of the local midnight of the
\* date; a year from 0 to 99 stands for 1900 + year, and a day beyond the end
\* of the month runs on into the months that follow
NewLocalDate(year, month, day, zone) ==
    LET y == IF year \in 0..99 THEN 1900 + year ELSE year IN
    (DaysFromCivil(y, month, 1) + day - 1) * MinutesPerDay - zone

\* a string of decimal digits is the sequence of its digits
RECURSIVE Digits(_)
\* String(n) of a natural number
Digits(n) == IF n < 10 THEN << n >> ELSE Digits(n \div 10) \o << n % 10 >>

RECURSIVE PadStart(_, _)
\* str.padStart(width, '0')
PadStart(q, width) == IF Len(q) >= width THEN q ELSE PadStart(<< 0 >> \o q, width)

RECURSIVE ToNumber(_)
\* Number(str) of a string of digits
ToNumber(q) ==
    IF q = << >> THEN 0 ELSE ToNumber(SubSeq(q, 1, Len(q) - 1)) * 10 + q[Len(q)]

\* the string `${year}-${month}-${day}`, kept as its three parts
DateString(year, month, day) == [year |-> year, month |-> month, day |-> day]

\* a formatting that takes year, month and day from the universal-time fields
\* of the instant
FormatLocalDateUtc(t, zone) ==
    LET f == LocalFields(t, 0) IN
    DateString(Digits(f.year), PadStart(Digits(f.month), 2), PadStart(Digits(f.day), 2))

\* formatLocalDate(date), also the formatting at the end of
\* getNextWeekdayDates: the year as it is, month and day padded to two digits
FormatLocalDate(t, zone) ==
    LET f == LocalFields(t, zone) IN
    DateString(Digits(f.year), PadStart(Digits(f.month), 2), PadStart(Digits(f.day), 2))

\* parseLocalDate(dateString): split('-').map(Number), then the local
\* constructor
ParseLocalDate(str, zone) ==
    NewLocalDate(ToNumber(str.year), ToNumber(str.month), ToNumber(str.day), zone)

\* the keys of getNextWeekdayDates' result, by getDay
Weekdays ==
    << "sunday", "monday", "tuesday", "wednesday", "thursday", "friday", "saturday" >>

\* a computation that lets today count as the next occurrence of its weekday
DaysUntilSameDay(targetDay, today, zone) ==
    (targetDay - GetDay(today, zone) + DaysPerWeek) % DaysPerWeek

\* (targetDay - today.getDay() + 7) % 7 || 7
DaysUntil(targetDay, today, zone) ==
    LET x == (targetDay - GetDay(today, zone) + DaysPerWeek) % DaysPerWeek IN
    IF x = 0 THEN DaysPerWeek ELSE x

\* the date set by nextDate.setDate(today.getDate() + daysUntil), today having
\* the local fields t
SetDate(t, daysUntil, zone) == NewLocalDate(t.year, t.month, t.day + daysUntil, zone)

\* the string stored for the weekday targetDay, today being local midnight
NextDateString(targetDay, today, zone) ==
    FormatLocalDate(SetDate(LocalFields(today, zone), DaysUntil(targetDay, today, zone), zone),
                    zone)

\* the strings of all weekdays, today being local midnight
NextDatesFrom(today, zone) ==
    [name \in {Weekdays[w] : w \in 1..DaysPerWeek} |->
        NextDateString((CHOOSE w \in 1..DaysPerWeek : Weekdays[w] = name) - 1, today, zone)]

\* the local midnight of the date with the local fields f
TodayOf(f, zone) == NewLocalDate(f.year, f.month, f.day, zone)

\* getNextWeekdayDates(fromDate) on a host in the zone
GetNextWeekdayDatesOf(fromDate, zone) ==
    NextDatesFrom(TodayOf(LocalFields(fromDate, zone), zone), zone)

\* the hosts drawn: five hours west of Greenwich, on it, and five and a half
\* hours east of it
HostZones == {-5 * MinutesPerHour, 0, 5 * MinutesPerHour + 30}

\* the first year of the reference instants drawn (a leap year)
FirstRefYear == 2024

\* the reference instants drawn: midnight and noon, universal time, of every
\* day of the years drawn
RefInstants ==
    {d * MinutesPerDay + h * MinutesPerHour :
        d \in DaysBeforeYear(FirstRefYear)..(DaysBeforeYear(FirstRefYear + MaxRefYears) - 1),
        h \in {0, HoursPerDay \div 2}}

\* the record of a call of a date helper on a host in the zone
DateCall(op, zone, arg, ret) == [op |-> op, zone |-> zone, arg |-> arg, ret |-> ret]

InitDates ==
    /\ clock \in RefInstants
    /\ obligations = << >>
    /\ persisted = << >>
    /\ budget = 0
    /\ lastOp = NoCall
    /\ Constructed

\* getNextWeekdayDates(new Date()) on a host in the zone
GetNextWeekdayDates(zone) ==
    /\ lastOp' = DateCall("getNextWeekdayDates", zone, clock,
                          GetNextWeekdayDatesOf(clock, zone))
    /\ UNCHANGED <<obligations, persisted, clock, budget>>
    /\ Untouched

NextDates == \E zone \in HostZones : GetNextWeekdayDates(zone)

SpecDates == InitDates /\ [][NextDates]_vars

\* a date string names a calendar date that exists, in the form YYYY-MM-DD
WellFormed(str) ==
    /\ Len(str.year) = 4 /\ Len(str.month) = 2 /\ Len(str.day) = 2
    /\ ToNumber(str.month) \in 1..MonthsPerYear
    /\ ToNumber(str.day) \in 1..DaysInMonth(ToNumber(str.year), ToNumber(str.month))

\* the day number of the date a well-formed date string names
DayOf(str) == DaysFromCivil(ToNumber(str.year), ToNumber(str.month), ToNumber(str.day))

\* the weekday (0 for Sunday) of a day number
WeekdayOf(n) == (n + EpochWeekday) % DaysPerWeek

\* C27: for every reference instant R and each of the seven weekday names,
\* getNextWeekdayDates(R) gives a date strictly after R's local date that falls
\* on that weekday, between 1 and 7 days later (hence the nearest such date);
\* when R's local date itself falls on that weekday the result is exactly 7
\* days later, never the same day.
C27_NextWeekdayIsNearestLater ==
    lastOp.op = "getNextWeekdayDates" =>
        \A w \in 1..DaysPerWeek :
            LET str == lastOp.ret[Weekdays[w]]
                ref == LocalDay(lastOp.arg, lastOp.zone)
            IN  /\ WellFormed(str)
                /\ WeekdayOf(DayOf(str)) = w - 1
                /\ DayOf(str) - ref \in 1..DaysPerWeek
                /\ WeekdayOf(ref) = w - 1 => DayOf(str) - ref = DaysPerWeek

\* getNextWeekdayDates has been called at an instant whose local date, a
\* Wednesday, is not its date in universal time, and gave the Wednesday seven
\* days later
C27_Witness ==
    /\ lastOp.op = "getNextWeekdayDates"
    /\ LocalDay(lastOp.arg, lastOp.zone) # LocalDay(lastOp.arg, 0)
    /\ WeekdayOf(LocalDay(lastOp.arg, lastOp.zone)) = 3
    /\ DayOf(lastOp.ret["wednesday"]) = LocalDay(lastOp.arg, lastOp.zone) + DaysPerWeek

\* the local calendar date of the reference instant of the recorded call
RefDate == LocalFields(lastOp.arg, lastOp.zone)

\* the weekday (0 for Sunday) of the local date of the reference instant
RefWeekday == WeekdayOf(LocalDay(lastOp.arg, lastOp.zone))

\* C28: for a reference date of Tuesday 30 December getNextWeekdayDates gives
\* Thursday as 1 January of the following year, for Wednesday 31 December it
\* gives Wednesday as 7 January of the following year, and every result that
\* lies in another month or year than the reference date is a calendar date
\* that exists; the result 7 days after a reference date in the last week of
\* a month is that many days into the following month.
C28_YearEndCarriesIntoJanuary ==
    lastOp.op = "getNextWeekdayDates" =>
        /\ RefDate.month = 12 /\ RefDate.day = 30 /\ RefWeekday = 2 =>
               lastOp.ret["thursday"] =
                   DateString(Digits(RefDate.year + 1), << 0, 1 >>, << 0, 1 >>)
        /\ RefDate.month = 12 /\ RefDate.day = 31 /\ RefWeekday = 3 =>
               lastOp.ret["wednesday"] =
                   DateString(Digits(RefDate.year + 1), << 0, 1 >>, << 0, 7 >>)
        /\ \A w \in 1..DaysPerWeek :
               LET str == lastOp.ret[Weekdays[w]] IN
               << ToNumber(str.year), ToNumber(str.month) >>
                       # << RefDate.year, RefDate.month >> =>
                   WellFormed(str)
        /\ RefDate.day + DaysPerWeek > DaysInMonth(RefDate.year, RefDate.month) =>
               LET str == lastOp.ret[Weekdays[RefWeekday + 1]] IN
               /\ ToNumber(str.day) =
                      RefDate.day + DaysPerWeek - DaysInMonth(RefDate.year, RefDate.month)
               /\ ToNumber(str.month) = (RefDate.month % MonthsPerYear) + 1
               /\ ToNumber(str.year) =
                      IF RefDate.month = MonthsPerYear THEN RefDate.year + 1
                      ELSE RefDate.year

\* getNextWeekdayDates has been called on Tuesday 30 December 2025, local
\* date, and gave 2026-01-01 for Thursday
C28_Witness ==
    /\ lastOp.op = "getNextWeekdayDates"
    /\ RefDate = [year |-> 2025, month |-> 12, day |-> 30]
    /\ RefWeekday = 2
    /\ lastOp.ret["thursday"] = DateString(<< 2, 0, 2, 6 >>, << 0, 1 >>, << 0, 1 >>)

\* getNextWeekdayDates has been called on Wednesday 31 December 2025, local
\* date, and gave 2026-01-07 for Wednesday
C28_WitnessNewYearsEve ==
    /\ lastOp.op = "getNextWeekdayDates"
    /\ RefDate = [year |-> 2025, month |-> 12, day |-> 31]
    /\ RefWeekday = 3
    /\ lastOp.ret["wednesday"] = DateString(<< 2, 0, 2, 6 >>, << 0, 1 >>, << 0, 7 >>)

\* C29: for a reference date of 28 February in a leap year the weekday of the
\* following day resolves to 29 February of the same year, and the reference
\* date's own weekday resolves to 6 March of that year, 7 days later.
C29_LeapDayIsCounted ==
    lastOp.op = "getNextWeekdayDates"
        /\ RefDate.month = 2 /\ RefDate.day = 28 /\ LeapYear(RefDate.year) =>
        /\ lastOp.ret[Weekdays[((RefWeekday + 1) % DaysPerWeek) + 1]] =
               DateString(Digits(RefDate.year), << 0, 2 >>, << 2, 9 >>)
        /\ lastOp.ret[Weekdays[RefWeekday + 1]] =
               DateString(Digits(RefDate.year), << 0, 3 >>, << 0, 6 >>)

\* getNextWeekdayDates has been called on Wednesday 28 February 2024, local
\* date, and gave 2024-02-29 for Thursday and 2024-03-06 for Wednesday
C29_Witness ==
    /\ lastOp.op = "getNextWeekdayDates"
    /\ RefDate = [year |-> 2024, month |-> 2, day |-> 28]
    /\ RefWeekday = 3
    /\ lastOp.ret["thursday"] = DateString(<< 2, 0, 2, 4 >>, << 0, 2 >>, << 2, 9 >>)
    /\ lastOp.ret["wednesday"] = DateString(<< 2, 0, 2, 4 >>, << 0, 3 >>, << 0, 6 >>)

\* the years of the date strings drawn: two-digit, three-digit and four-digit
\* years
StringYears == {50, 999, 1000, 2024}

\* the strings YYYY-MM-DD drawn: the first, the fifteenth and the last day of
\* every month of the years drawn, the year padded to four digits, month and
\* day to two
DateStrings ==
    {DateString(PadStart(Digits(ymd[1]), 4), PadStart(Digits(ymd[2]), 2),
                PadStart(Digits(ymd[3]), 2)) :
        ymd \in UNION {{<< y, m, 1 >>, << y, m, 15 >>, << y, m, DaysInMonth(y, m) >>} :
                          y \in StringYears, m \in 1..MonthsPerYear}}

\* formatLocalDate(parseLocalDate(dateString)) on a host in the zone
FormatParsed(str, zone) ==
    /\ lastOp' = DateCall("formatLocalDate", zone, str,
                          FormatLocalDate(ParseLocalDate(str, zone), zone))
    /\ UNCHANGED <<obligations, persisted, clock, budget>>
    /\ Untouched

NextRoundTrip == \E str \in DateStrings, zone \in HostZones : FormatParsed(str, zone)

SpecRoundTrip == Init /\ [][NextRoundTrip]_vars

\* C30: formatLocalDate(parseLocalDate(s)) equals s for every string s of the
\* form YYYY-MM-DD that names a calendar date that exists, years below 1000
\* included, on a host east or west of Greenwich.
C30_RoundTrip ==
    lastOp.op = "formatLocalDate" => lastOp.ret = lastOp.arg

\* what the code does give: the string comes back for every year from 1000 on,
\* and month and day come back for every year, in every zone
C30_RoundTripFromYear1000 ==
    lastOp.op = "formatLocalDate" =>
        /\ lastOp.ret.month = lastOp.arg.month
        /\ lastOp.ret.day = lastOp.arg.day
        /\ ToNumber(lastOp.arg.year) >= 1000 => lastOp.ret = lastOp.arg

\* 0999-01-01 has come back as 999-01-01 on a host east of Greenwich
C30_WitnessShortYear ==
    /\ lastOp.op = "formatLocalDate"
    /\ lastOp.zone > 0
    /\ lastOp.arg = DateString(<< 0, 9, 9, 9 >>, << 0, 1 >>, << 0, 1 >>)
    /\ lastOp.ret = DateString(<< 9, 9, 9 >>, << 0, 1 >>, << 0, 1 >>)

\* 0050-06-15 has come back as 1950-06-15
C30_WitnessTwoDigitYear ==
    /\ lastOp.op = "formatLocalDate"
    /\ lastOp.arg = DateString(<< 0, 0, 5, 0 >>, << 0, 6 >>, << 1, 5 >>)
    /\ lastOp.ret = DateString(<< 1, 9, 5, 0 >>, << 0, 6 >>, << 1, 5 >>)

----------------------------------------------------------------------------
(* The extraction step: AIParser.parse and AIParser.aiParse                 *)
(* (src/src/business/aiParser.js).  The language model's reply is an input: *)
(* the JSON object in data.choices[0].message.content, or a failure of the  *)
(* call (a network error, a status that is not ok, a reply that is no JSON). *)

\* the texts a request carries: two phrases, and a blank one
Texts == {"call mom", "pay rent", " "}

\* input.trim() of the texts drawn, which carry no other outer whitespace
Trim(text) == IF text = " " THEN "" ELSE text

Confidences == {"high", "medium", "low"}

\* the replies drawn: every confidence or none, a due date or none, a title or
\* none, a duration or none, an urgency or none; and the failed call
Replies ==
    {[ok |-> TRUE, title |-> t, due_at |-> d, estimated_duration |-> e,
      urgency |-> u, confidence |-> c] :
        t \in {"", "t"}, d \in {NULL, MaxClock + 1}, e \in {UNDEF, 15},
        u \in {"", "normal"}, c \in Confidences \cup {""}}
    \cup {[ok |-> FALSE, title |-> "", due_at |-> NULL, estimated_duration |-> UNDEF,
           urgency |-> "", confidence |-> ""]}

\* the record parse returns when it does not reach the model or the call fails
Fallback(text) ==
    [title |-> text, due_at |-> NULL, estimated_duration |-> NULL, urgency |-> "null",
     confidence |-> "low", needs_clarification |-> TRUE]

\* the result aiParse builds from the content of a reply
AiParseResult(content, text) ==
    [title |-> IF content.title # "" THEN content.title ELSE text,
     due_at |-> IF Truthy(content.due_at) THEN content.due_at ELSE NULL,
     estimated_duration |-> content.estimated_duration,
     urgency |-> IF content.urgency # "" THEN content.urgency ELSE "null",
     confidence |-> IF content.confidence # "" THEN content.confidence ELSE "medium",
     needs_clarification |-> content.confidence = "low"]

\* aiParse(text): the result built from the reply, the fallback when the call
\* fails
AiParseOf(text, reply) ==
    IF reply.ok THEN AiParseResult(reply, text) ELSE Fallback(text)

\* parse(input) of a string that is not empty: the fallback when no API key is
\* set, else aiParse of the trimmed input
ParseOf(input, apiKey, reply) ==
    IF ~apiKey THEN Fallback(Trim(input)) ELSE AiParseOf(Trim(input), reply)

\* the record of a call of parse: its input, the reply it got, its result
ParseCall(input, reply, ret) ==
    [op |-> "parse", arg |-> input, reply |-> reply, ret |-> ret]

\* a server whose parser has an API key or has none (the source sets none;
\* line 11 of aiParser.js speaks of a hardcoded key)
InitParse ==
    /\ obligations = << >>
    /\ persisted = << >>
    /\ clock = StartClock
    /\ budget = 0
    /\ lastOp = NoCall
    /\ \E apiKey \in BOOLEAN : parser = AIParser(clock, apiKey)
    /\ inflight = << >>
    /\ app = ObligationApp

\* parser.parse(input) runs to its end
Parse(input, reply) ==
    /\ lastOp' = ParseCall(input, reply, ParseOf(input, parser.apiKey, reply))
    /\ UNCHANGED <<obligations, persisted, clock, budget, parser, inflight, app>>

NextParse == \E input \in Texts, reply \in Replies : Parse(input, reply)

SpecParse == InitParse /\ [][NextParse]_vars

\* C31: every result the extraction step returns has needs_clarification true
\* exactly when its confidence is low or it carries no usable due date; a
\* result with confidence high or medium and no due_at has needs_clarification
\* true.
C31_ClarificationIffLowOrUndated ==
    lastOp.op = "parse" =>
        (lastOp.ret.needs_clarification <=>
            (lastOp.ret.confidence = "low" \/ ~Truthy(lastOp.ret.due_at)))

\* what the code does give: needs_clarification is true exactly when the
\* confidence is low
C31_ClarificationIffLow ==
    lastOp.op = "parse" =>
        (lastOp.ret.needs_clarification <=> lastOp.ret.confidence = "low")

\* parse has returned a result of high confidence without a due date that
\* does not ask for clarification
C31_WitnessUndatedNotAsked ==
    /\ lastOp.op = "parse"
    /\ lastOp.ret.confidence = "high"
    /\ lastOp.ret.due_at = NULL
    /\ ~lastOp.ret.needs_clarification

----------------------------------------------------------------------------
(* POST /api/obligations (src/unnamed/part_003, lines 31-55): the handler   *)
(* runs to its await of parser.parse, and again from there to its response  *)
(* once the extraction has resolved; other requests run in between.         *)

\* the bodies of the add requests drawn: no text, a text alone, a text with a
\* follow-up phrase
PostBodies ==
    {[text |-> "", followup |-> ""],
     [text |-> "call mom", followup |-> ""],
     [text |-> "pay rent", followup |-> ""],
     [text |-> "call mom", followup |-> "at noon"]}

\* followup ? `${text} ${followup}` : text
InputText(body) ==
    IF body.followup # "" THEN body.text \o " " \o body.followup ELSE body.text

\* the replies the model gives to these requests: a dated result of high
\* confidence, an undated one of high confidence, an undated one of low
\* confidence, and the failed call
PostReplies ==
    {[ok |-> TRUE, title |-> "", due_at |-> d, estimated_duration |-> UNDEF,
      urgency |-> "normal", confidence |-> c] :
        d \in {NULL, MaxClock + 1}, c \in {"high"}}
    \cup {[ok |-> TRUE, title |-> "", due_at |-> NULL, estimated_duration |-> UNDEF,
           urgency |-> "normal", confidence |-> "low"],
          [ok |-> FALSE, title |-> "", due_at |-> NULL, estimated_duration |-> UNDEF,
           urgency |-> "", confidence |-> ""]}

\* a handler that adds whatever the extraction returned
AsksBackNever(result, body) == FALSE

\* a handler that asks back after a follow-up as well
AsksBackAgain(result, body) ==
    result.needs_clarification /\ ~Truthy(result.due_at)

\* result.needs_clarification && !result.due_at && !followup
AsksBack(result, body) ==
    result.needs_clarification /\ ~Truthy(result.due_at) /\ body.followup = ""

\* a push to the front of the collection
PushedFirst(obs, o) == << o >> \o obs

\* this.obligations.push(obligation)
Pushed(obs, o) == Append(obs, o)

\* the record of a response: the body of the request, its position among the
\* requests in flight, the extraction's result and what was sent
Response(body, idx, result, ret) ==
    [op |-> "post", body |-> body, idx |-> idx, result |-> result, ret |-> ret]

\* the handler up to its await: a body without text is answered with status
\* 400, any other request waits for the extraction
Post(body) ==
    /\ IF body.text = ""
       THEN /\ lastOp' = Response(body, 0, Fallback(""), "400")
            /\ UNCHANGED inflight
       ELSE /\ Len(obligations) + Len(inflight) < MaxObligations
            /\ inflight' = Append(inflight, body)
            /\ UNCHANGED lastOp
    /\ UNCHANGED <<obligations, persisted, clock, budget, parser, app>>

\* the handler from its await on, for the request at position i: the
\* extraction resolved with the reply; the handler asks back, or it calls
\* obligationManager.add and answers with the obligation, or with status 500
\* when the write threw
Respond(i, reply, now, ok) ==
    LET body == inflight[i]
        result == ParseOf(InputText(body), parser.apiKey, reply)
    IN  /\ inflight' = RemoveAt(inflight, i)
        /\ IF AsksBack(result, body)
           THEN /\ ok
                /\ lastOp' = Response(body, i, result, "needs_clarification")
                /\ UNCHANGED <<obligations, persisted, clock, budget>>
           ELSE /\ MayFail(ok)
                /\ clock' = now
                /\ obligations' = Pushed(obligations, NewObligation(result, now))
                /\ SaveObligations(obligations', ok)
                /\ lastOp' = Response(body, i, result,
                                      IF ok THEN "obligation" ELSE "500")
        /\ UNCHANGED <<parser, app>>

NextServer ==
    \/ \E body \in PostBodies : Post(body)
    \/ \E i \in 1..Len(inflight), reply \in PostReplies, now \in Instants,
          ok \in BOOLEAN : Respond(i, reply, now, ok)

SpecServer == InitParse /\ [][NextServer]_vars

\* the step is a response of the add handler
Responds == Len(inflight') < Len(inflight)

\* the extraction's result asks for clarification and carries no due date
StillUnclear(result) == result.needs_clarification /\ ~Truthy(result.due_at)

\* C32: when the extraction signals needs_clarification with no due date and
\* the request carries no follow-up, the add request commits nothing: the
\* collection and the file are unchanged and the response carries the
\* needs_clarification signal, not an error.
C32_UnclearWithoutFollowupCommitsNothing ==
    [][Responds /\ StillUnclear(lastOp'.result) /\ lastOp'.body.followup = "" =>
           /\ obligations' = obligations
           /\ persisted' = persisted
           /\ lastOp'.ret = "needs_clarification"]_vars

\* a request without follow-up has been answered with the clarification
\* signal while another request had been committed before
C32_Witness ==
    /\ lastOp.op = "post"
    /\ lastOp.body = [text |-> "call mom", followup |-> ""]
    /\ StillUnclear(lastOp.result)
    /\ lastOp.ret = "needs_clarification"
    /\ Len(obligations) = 1
    /\ persisted = obligations

\* C33: when a follow-up phrase again fails to yield a usable date, the
\* request with the follow-up returns the clarification signal again and the
\* obligation is not committed without the clarification having succeeded.
C33_UnclearFollowupAsksAgain ==
    [][Responds /\ StillUnclear(lastOp'.result) /\ lastOp'.body.followup # "" =>
           /\ obligations' = obligations
           /\ lastOp'.ret = "needs_clarification"]_vars

\* what the code does give: a request with a follow-up is never asked back;
\* its obligation is added whatever the extraction returned, without a date
\* when the extraction found none
C33_FollowupAlwaysCommits ==
    [][Responds /\ lastOp'.body.followup # "" =>
           /\ lastOp'.ret = "obligation"
           /\ Len(obligations') = Len(obligations) + 1
           /\ obligations'[Len(obligations')].due_at = lastOp'.result.due_at]_vars

\* a follow-up whose extraction was still unclear has been committed as an
\* obligation without a date
C33_WitnessCommittedUndated ==
    /\ lastOp.op = "post"
    /\ lastOp.body.followup # ""
    /\ StillUnclear(lastOp.result)
    /\ lastOp.ret = "obligation"
    /\ obligations # << >>
    /\ obligations[Len(obligations)].title = "call mom at noon"
    /\ obligations[Len(obligations)].due_at = NULL

\* C39: for any interleaving of concurrent add requests whose extractions
\* complete, each add runs as one uninterrupted step: the response step of a
\* committed request appends that request's obligation behind everything the
\* collection held and writes the whole collection to the file, and no other
\* step of the handler changes the collection or the file; so the obligations
\* of two requests are both held and stored, in the order in which their
\* extractions completed.
C39_AddsAreSerialized ==
    [][IF Responds /\ lastOp'.ret = "obligation"
       THEN /\ Len(obligations') = Len(obligations) + 1
            /\ SubSeq(obligations', 1, Len(obligations)) = obligations
            /\ obligations'[Len(obligations')].title = lastOp'.result.title
            /\ obligations'[Len(obligations')].due_at = lastOp'.result.due_at
            /\ persisted' = obligations'
       ELSE /\ obligations' = obligations
            /\ persisted' = persisted]_vars

\* two requests were in flight together, the one received second was
\* answered first, and both obligations are held and stored in the order of
\* their responses
C39_Witness ==
    /\ lastOp.op = "post"
    /\ lastOp.ret = "obligation"
    /\ lastOp.body.text = "call mom"
    /\ inflight = << >>
    /\ Len(obligations) = 2
    /\ obligations[1].title = "pay rent"
    /\ obligations[2].title = "call mom"
    /\ persisted = obligations

\* the request received second has been answered while the first still waits
C39_WitnessOvertaken ==
    /\ lastOp.op = "post"
    /\ lastOp.ret = "obligation"
    /\ lastOp.idx = 2
    /\ Len(inflight) = 1
    /\ Len(obligations) = 1

----------------------------------------------------------------------------
(* The browser's add and follow-up handlers (src/unnamed/part_002, lines    *)
(* 129-200 and 538-557).  A handler runs to its fetch, waits, runs on when  *)
(* the response arrives, waits again for the reload, and finishes; the      *)
(* server is the environment and answers each POST in one of four ways.     *)

\* how a POST /api/obligations ends for the browser: the obligation, the
\* clarification signal, a body with an error (status 400 or 500), or a fetch
\* or a response.json() that rejects
Outcomes == {"obligation", "needs_clarification", "error", "failed"}

\* the follow-up phrases typed
Followups == {"at noon"}

\* setLoading(loading)
SetLoading(a, loading) == [a EXCEPT !.isLoading = loading]

\* showFollowup(text, result)
ShowFollowup(a, text) == [a EXCEPT !.pendingText = text, !.followup = TRUE]

\* hideFollowup()
HideFollowup(a) == [a EXCEPT !.pendingText = "null", !.followup = FALSE]

\* a handler that waits: which one, the text it sent, and what it waits for
Waiting(kind, text, phase) == [kind |-> kind, text |-> text, phase |-> phase]

\* the handler at position i has reached its finally
Finished(a, i) == SetLoading([a EXCEPT !.running = RemoveAt(@, i)], FALSE)

\* the handler at position i goes on to await this.loadObligations()
Reloading(a, i) == [a EXCEPT !.running[i].phase = "reload"]

\* the record of a handler call or of a response that reached the browser
AppCall(op, arg, ret) == [op |-> op, arg |-> arg, ret |-> ret]

\* a guard that looks at the text alone
IgnoresBlankOnly(a, text) == Trim(text) = ""

\* if (!text.trim() || this.isLoading) return
Ignores(a, text) == Trim(text) = "" \/ a.isLoading

\* handleInput(text) up to its fetch
HandleInput(text) ==
    /\ IF Ignores(app, text)
       THEN /\ lastOp' = AppCall("handleInput", text, "ignored")
            /\ UNCHANGED app
       ELSE /\ lastOp' = AppCall("handleInput", text, "sent")
            /\ app' = SetLoading([app EXCEPT !.running =
                                     Append(@, Waiting("input", text, "post"))], TRUE)
    /\ UNCHANGED <<obligations, persisted, clock, budget, parser, inflight>>

\* handleFollowup(followupText) up to its fetch
HandleFollowup(followupText) ==
    /\ IF app.isLoading
       THEN /\ lastOp' = AppCall("handleFollowup", followupText, "ignored")
            /\ UNCHANGED app
       ELSE /\ lastOp' = AppCall("handleFollowup", followupText, "sent")
            /\ app' = SetLoading([app EXCEPT !.running =
                                     Append(@, Waiting("followup", app.pendingText, "post"))],
                                 TRUE)
    /\ UNCHANGED <<obligations, persisted, clock, budget, parser, inflight>>

\* the POST of the handler at position i ends: handleInput shows the
\* follow-up section or goes on to reload, handleFollowup goes on to reload
\* unless the body carries an error; a rejection is caught; each handler that
\* does not reload reaches its finally
PostEnds(i, outcome) ==
    LET h == app.running[i] IN
    /\ h.phase = "post"
    /\ lastOp' = AppCall("response", h.kind, outcome)
    /\ app' =
         IF outcome = "failed"
         THEN Finished(IF h.kind = "followup" THEN HideFollowup(app) ELSE app, i)
         ELSE IF h.kind = "input"
         THEN IF outcome = "needs_clarification"
              THEN Finished(ShowFollowup(app, h.text), i)
              ELSE Reloading(app, i)
         ELSE IF outcome = "error"
              THEN Finished(HideFollowup(app), i)
              ELSE Reloading(app, i)
    /\ UNCHANGED <<obligations, persisted, clock, budget, parser, inflight>>

\* the reload of the handler at position i ends (loadObligations catches its
\* own errors): handleFollowup hides the follow-up section, and each handler
\* reaches its finally
ReloadEnds(i) ==
    LET h == app.running[i] IN
    /\ h.phase = "reload"
    /\ lastOp' = AppCall("reloaded", h.kind, "ok")
    /\ app' = Finished(IF h.kind = "followup" THEN HideFollowup(app) ELSE app, i)
    /\ UNCHANGED <<obligations, persisted, clock, budget, parser, inflight>>

\* a click on followup-cancel, while the follow-up section shows
CancelFollowup ==
    /\ app.followup
    /\ lastOp' = AppCall("cancel", "", "ok")
    /\ app' = HideFollowup(app)
    /\ UNCHANGED <<obligations, persisted, clock, budget, parser, inflight>>

NextApp ==
    \/ \E text \in Texts : HandleInput(text)
    \/ \E followupText \in Followups : HandleFollowup(followupText)
    \/ \E i \in 1..Len(app.running), outcome \in Outcomes : PostEnds(i, outcome)
    \/ \E i \in 1..Len(app.running) : ReloadEnds(i)
    \/ CancelFollowup

SpecApp == Init /\ [][NextApp]_vars

\* C40: in the browser at most one add or follow-up request is in flight at
\* any time; handleInput and handleFollowup do nothing while isLoading is
\* true; and isLoading is true exactly while a handler waits, so it is false
\* again once the handler has finished after a response or an error.
C40_OneRequestAtATime ==
    [][/\ Len(app'.running) <= 1
       /\ app'.isLoading <=> app'.running # << >>
       /\ app.isLoading /\ lastOp' # lastOp
              /\ lastOp'.op \in {"handleInput", "handleFollowup"} =>
              app' = app /\ lastOp'.ret = "ignored"
       /\ Len(app'.running) < Len(app.running) => ~app'.isLoading]_vars

\* handleInput has been called while a follow-up request was in flight and
\* was ignored
C40_Witness ==
    /\ lastOp = AppCall("handleInput", "pay rent", "ignored")
    /\ app.isLoading
    /\ Len(app.running) = 1
    /\ app.running[1].kind = "followup"
    /\ app.running[1].text = "call mom"

\* a rejected follow-up request has finished: nothing waits, the input is
\* enabled again
C40_WitnessAfterFailure ==
    /\ lastOp = AppCall("response", "followup", "failed")
    /\ ~app.isLoading
    /\ app.running = << >>

----------------------------------------------------------------------------
(* The timestamps the program builds: nowTimestamp in AIParser.aiParse      *)
(* (aiParser.js, lines 64-69, with DateUtils.getTimezoneInfo),              *)
(* dateTimeInputToISO in the browser (part_002, lines 472-489) and          *)
(* createISO in loadSamples (obligationManager.js, lines 134-149).  A       *)
(* timestamp is kept as its parts; its offset is a sequence of characters.  *)

\* the hosts drawn for the timestamps: those above, one three and a half
\* hours west of Greenwich and one five and three quarters east of it
OffsetZones == HostZones \cup {-(3 * MinutesPerHour + 30), 5 * MinutesPerHour + 45}

\* the characters of the decimal digits
DigitChars == << "0", "1", "2", "3", "4", "5", "6", "7", "8", "9" >>

\* a string of digits as a sequence of characters
Chars(q) == [i \in 1..Len(q) |-> DigitChars[q[i] + 1]]

\* Math.abs
Abs(n) == IF n < 0 THEN -n ELSE n

\* the fraction of String(h) for a number of hours h with the given minutes
\* beyond the whole hours, a multiple of 15: nothing, .25, .5 or .75
FractionChars(minutes) ==
    LET hundredths == (minutes * 100) \div MinutesPerHour IN
    IF minutes = 0 THEN << >>
    ELSE << "." >> \o
         Chars(IF hundredths % 10 = 0 THEN << hundredths \div 10 >>
               ELSE << hundredths \div 10, hundredths % 10 >>)

\* String(Math.abs(timezoneOffset)) where timezoneOffset is
\* -date.getTimezoneOffset() / 60, a number of hours
HoursString(zone) ==
    Chars(Digits(Abs(zone) \div MinutesPerHour)) \o FractionChars(Abs(zone) % MinutesPerHour)

\* str.padStart(width, '0') of a sequence of characters
RECURSIVE PadChars(_, _)
PadChars(q, width) == IF Len(q) >= width THEN q ELSE PadChars(<< "0" >> \o q, width)

\* `${offsetSign}${offsetHours}:00` of aiParse
NowOffset(zone) ==
    << IF zone >= 0 THEN "+" ELSE "-" >> \o PadChars(HoursString(zone), 2) \o << ":", "0", "0" >>

\* offsetStr of dateTimeInputToISO and of createISO: the sign, Math.floor of
\* the hours and the minutes, each padded to two digits
OffsetStr(zone) ==
    << IF zone >= 0 THEN "+" ELSE "-" >>
    \o Chars(PadStart(Digits(Abs(zone) \div MinutesPerHour), 2))
    \o << ":" >>
    \o Chars(PadStart(Digits(Abs(zone) % MinutesPerHour), 2))

\* minutes of the local day of an instant: 60 * getHours() + getMinutes()
LocalMinutes(t, zone) == (t + zone) % MinutesPerDay

\* a timestamp `${date}T${hour}:${minute}:00${offset}`, kept as its parts
Timestamp(date, hour, minute, offset) ==
    [date |-> date, hour |-> hour, minute |-> minute, offset |-> offset]

\* the date and time parts of a timestamp for the local fields of an instant
LocalTimestamp(t, zone, date, offset) ==
    Timestamp(date,
              PadStart(Digits(LocalMinutes(t, zone) \div MinutesPerHour), 2),
              PadStart(Digits(LocalMinutes(t, zone) % MinutesPerHour), 2),
              offset)

\* nowTimestamp of aiParse for a parser whose this.now is t
NowTimestampOf(t, zone) == LocalTimestamp(t, zone, FormatLocalDate(t, zone), NowOffset(zone))

\* the instant of new Date(dateTimeValue) for a datetime-local value, read as
\* local time
FromLocalFields(f, minutes, zone) ==
    DaysFromCivil(f.year, f.month, f.day) * MinutesPerDay + minutes - zone

\* dateTimeInputToISO(dateTimeValue) for the value that shows the local date
\* and time of t
DateTimeInputToISOOf(t, zone) ==
    LET date == FromLocalFields(LocalFields(t, zone), LocalMinutes(t, zone), zone) IN
    LocalTimestamp(date, zone, FormatLocalDate(date, zone), OffsetStr(zone))

\* createISO(year, month, day, hour, minute) of loadSamples for the local date
\* and time of t: the year padded to four digits
CreateISOOf(t, zone) ==
    LET f == LocalFields(t, zone) IN
    LocalTimestamp(t, zone,
                   DateString(PadStart(Digits(f.year), 4), PadStart(Digits(f.month), 2),
                              PadStart(Digits(f.day), 2)),
                   OffsetStr(zone))

\* the instants drawn: the full hours of the day on which time begins
InitStamps ==
    /\ clock \in ViewInstants
    /\ obligations = << >>
    /\ persisted = << >>
    /\ budget = 0
    /\ lastOp = NoCall
    /\ Constructed

\* aiParse builds nowTimestamp on a host in the zone
NowTimestamp(zone) ==
    /\ lastOp' = DateCall("nowTimestamp", zone, parser.now, NowTimestampOf(parser.now, zone))
    /\ UNCHANGED <<obligations, persisted, clock, budget>>
    /\ Untouched

\* the edit overlay's save converts the value of its datetime-local input;
\* an empty value (arg NULL) gives null
DateTimeInputToISO(zone, filled) ==
    /\ lastOp' = IF filled
                 THEN DateCall("dateTimeInputToISO", zone, clock, DateTimeInputToISOOf(clock, zone))
                 ELSE DateCall("dateTimeInputToISO", zone, NULL, NULL)
    /\ UNCHANGED <<obligations, persisted, clock, budget>>
    /\ Untouched

\* loadSamples builds the due_at of a sample
CreateISO(zone) ==
    /\ lastOp' = DateCall("createISO", zone, clock, CreateISOOf(clock, zone))
    /\ UNCHANGED <<obligations, persisted, clock, budget>>
    /\ Untouched

NextStamps ==
    \/ \E zone \in OffsetZones : NowTimestamp(zone)
    \/ \E zone \in OffsetZones, filled \in BOOLEAN : DateTimeInputToISO(zone, filled)
    \/ \E zone \in OffsetZones : CreateISO(zone)

SpecStamps == InitStamps /\ [][NextStamps]_vars

\* the digit a character stands for, 10 for any other character
DigitOf(c) ==
    IF \E d \in 0..9 : DigitChars[d + 1] = c
    THEN CHOOSE d \in 0..9 : DigitChars[d + 1] = c
    ELSE 10

\* an offset has the form +HH:MM or -HH:MM and names the zone
NamesZone(offset, zone) ==
    /\ Len(offset) = 6
    /\ offset[1] \in {"+", "-"}
    /\ offset[4] = ":"
    /\ \A i \in {2, 3, 5, 6} : DigitOf(offset[i]) < 10
    /\ 10 * DigitOf(offset[5]) + DigitOf(offset[6]) < MinutesPerHour
    /\ (IF offset[1] = "+" THEN 1 ELSE -1)
           * ((10 * DigitOf(offset[2]) + DigitOf(offset[3])) * MinutesPerHour
              + 10 * DigitOf(offset[5]) + DigitOf(offset[6])) = zone

StampOps == {"nowTimestamp", "dateTimeInputToISO", "createISO"}

\* C34: every due_at the program builds itself (nowTimestamp, the browser's
\* conversion of an edited date-time, the sample data) ends in an offset of
\* the form +HH:MM or -HH:MM equal to the host's offset, for every host
\* offset, those that are not a whole number of hours included.
C34_BuiltOffsetsNameTheZone ==
    lastOp.op \in StampOps /\ lastOp.arg # NULL => NamesZone(lastOp.ret.offset, lastOp.zone)

\* what the code does give: the browser's conversion and the sample data
\* name the zone for every offset, nowTimestamp for every offset of whole
\* hours
C34_OffsetsOfWholeHours ==
    lastOp.op \in StampOps /\ lastOp.arg # NULL
        /\ (lastOp.op = "nowTimestamp" => lastOp.zone % MinutesPerHour = 0) =>
        NamesZone(lastOp.ret.offset, lastOp.zone)

\* nowTimestamp has ended in +5.5:00 on a host five and a half hours east of
\* Greenwich
C34_WitnessHalfHour ==
    /\ lastOp.op = "nowTimestamp"
    /\ lastOp.zone = 5 * MinutesPerHour + 30
    /\ lastOp.ret.offset = << "+", "5", ".", "5", ":", "0", "0" >>

\* the browser's conversion has ended in -03:30 on a host three and a half
\* hours west of Greenwich, for a local time on the day before
C34_WitnessBrowser ==
    /\ lastOp.op = "dateTimeInputToISO"
    /\ lastOp.arg # NULL
    /\ lastOp.ret.offset = << "-", "0", "3", ":", "3", "0" >>
    /\ lastOp.ret.date = DateString(<< 1, 9, 6, 9 >>, << 1, 2 >>, << 3, 1 >>)
    /\ lastOp.ret.hour = << 2, 1 >>
    /\ lastOp.ret.minute = << 3, 0 >>

----------------------------------------------------------------------------
(* The grounding of an extraction request: the calendar snapshot            *)
(* (DateUtils.getTimezoneInfo) and the next-weekday dates that aiParse puts *)
(* into its prompt (aiParser.js, lines 56-69), both computed from this.now, *)
(* which the constructor sets (line 10) and nothing sets again.  The server *)
(* constructs one parser when it starts (part_003, line 14).                *)

\* getTimezoneInfo(date) on a host in the zone: the offset (here in minutes),
\* the local date, the local time of day (in minutes) and the weekday
GetTimezoneInfo(date, zone) ==
    [timezoneOffset |-> zone,
     currentDate |-> FormatLocalDate(date, zone),
     currentTime |-> LocalMinutes(date, zone),
     dayOfWeek |-> GetDay(date, zone)]

\* what aiParse grounds its prompt on, computed from the date it is given
Grounding(date, zone) ==
    [tzInfo |-> GetTimezoneInfo(date, zone),
     nextDates |-> GetNextWeekdayDatesOf(date, zone),
     nowTimestamp |-> NowTimestampOf(date, zone)]

\* the date aiParse grounds a request on: this.now
GroundingDate(p, now) == p.now

\* a server started at one of the full hours of the day on which time begins,
\* its parser with an API key or with none
InitGrounded ==
    /\ clock \in ViewInstants
    /\ obligations = << >>
    /\ persisted = << >>
    /\ budget = 0
    /\ lastOp = NoCall
    /\ \E apiKey \in BOOLEAN : parser = AIParser(clock, apiKey)
    /\ inflight = << >>
    /\ app = ObligationApp

\* an hour passes while the server stays up
HourPasses ==
    /\ clock + MinutesPerHour \in ViewInstants
    /\ clock' = clock + MinutesPerHour
    /\ UNCHANGED <<obligations, persisted, budget, lastOp>>
    /\ Untouched

\* parser.parse(text) reaches aiParse (the parser has a key), which grounds
\* its prompt on a host in the zone; arg is the instant of the request
AiParseGrounds(zone) ==
    /\ parser.apiKey
    /\ lastOp' = DateCall("aiParse", zone, clock,
                          Grounding(GroundingDate(parser, clock), zone))
    /\ UNCHANGED <<obligations, persisted, clock, budget>>
    /\ Untouched

\* parser.parse(text) of a parser without a key returns the fallback at line
\* 29 and grounds nothing
ParseUngrounded(reply) ==
    /\ ~parser.apiKey
    /\ lastOp' = ParseCall("call mom", reply, ParseOf("call mom", parser.apiKey, reply))
    /\ UNCHANGED <<obligations, persisted, clock, budget>>
    /\ Untouched

NextGrounded ==
    \/ HourPasses
    \/ \E zone \in HostZones : AiParseGrounds(zone)
    \/ \E reply \in PostReplies : ParseUngrounded(reply)

SpecGrounded == InitGrounded /\ [][NextGrounded]_vars

\* the local date, the weekday and the next-weekday dates of a grounding
CalendarOf(g) ==
    [currentDate |-> g.tzInfo.currentDate, dayOfWeek |-> g.tzInfo.dayOfWeek,
     nextDates |-> g.nextDates]

\* C35: the calendar snapshot and the seven next-weekday dates that ground
\* an extraction request are those of the instant of the request, also when
\* the server has stayed up across a local midnight since the parser was
\* constructed.
C35_GroundedOnRequestInstant ==
    lastOp.op = "aiParse" =>
        CalendarOf(lastOp.ret) = CalendarOf(Grounding(lastOp.arg, lastOp.zone))

\* what the code does give: every request is grounded on the instant at
\* which the parser was constructed
C35_GroundedOnConstruction ==
    lastOp.op = "aiParse" => lastOp.ret = Grounding(parser.now, lastOp.zone)

\* five hours west of Greenwich a parser constructed at 23:00 on 1969-12-31
\* has grounded a request made at 01:00 on 1970-01-01 on 1969-12-31, a
\* Wednesday, and has given 1970-01-01 as the next Thursday
C35_WitnessAcrossMidnight ==
    /\ lastOp.op = "aiParse"
    /\ lastOp.zone = -5 * MinutesPerHour
    /\ parser.now = 4 * MinutesPerHour
    /\ lastOp.arg = 6 * MinutesPerHour
    /\ lastOp.ret.tzInfo.currentDate = DateString(<< 1, 9, 6, 9 >>, << 1, 2 >>, << 3, 1 >>)
    /\ lastOp.ret.tzInfo.dayOfWeek = 3
    /\ FormatLocalDate(lastOp.arg, lastOp.zone) = DateString(<< 1, 9, 7, 0 >>, << 0, 1 >>, << 0, 1 >>)

----------------------------------------------------------------------------
(* The sweep and the grouping together: the browser's loadObligations       *)
(* (part_002, lines 202-210) fetches GET /api/obligations, which the server *)
(* answers with getAll (part_003, lines 20-28), and renders the response.   *)
(* RenderLoaded groups the response at the instant at which getAll read the *)
(* clock.  Instants are counted in minutes.                                 *)

\* the response of a getAll that returned is grouped at the same instant
RenderLoaded ==
    /\ lastOp.op = "getAll"
    /\ lastOp.ret = "ok"
    /\ lastOp' = Call("groupByTimeHorizon", 0, "none", "none", clock,
                      GroupByTimeHorizonOf(obligations, clock))
    /\ UNCHANGED <<obligations, persisted, clock, budget>>
    /\ Untouched

NextRendered ==
    \/ \E now \in Instants, c \in Candidates, ok \in BOOLEAN : Add(now, c, ok) /\ Untouched
    \/ \E now \in Instants, id \in IdInputs, u \in DurableUpdates, ok \in BOOLEAN :
          Update(now, id, u, ok) /\ Untouched
    \/ \E now \in Instants, id \in IdInputs, ok \in BOOLEAN : ToggleDone(now, id, ok) /\ Untouched
    \/ \E now \in Instants, ok \in BOOLEAN : GetAll(now, ok) /\ Untouched
    \/ RenderLoaded

SpecRendered == InitFaulty /\ [][NextRendered]_vars

\* the obligation is pending and its due_at lies before t
PendingPastDue(o, t) == o.status = "pending" /\ IsInstant(o.due_at) /\ o.due_at < t

\* C36: right after a getAll evaluated at t has returned, no obligation is
\* pending with a due_at earlier than t; a grouping of the collection at the
\* same t therefore sends to missed only obligations whose status is missed
\* (its rule for a pending obligation with a past due_at is not needed).
C36_NothingPendingPastDueAfterGetAll ==
    /\ (lastOp.op = "getAll" /\ lastOp.ret = "ok") =>
          \A i \in Positions : ~PendingPastDue(obligations[i], clock)
    /\ lastOp.op = "groupByTimeHorizon" =>
          \A j \in 1..Len(lastOp.ret.missed) : lastOp.ret.missed[j].status = "missed"

\* a getAll has swept the second of two obligations into missed and left the
\* first, due later, pending; the grouping at the same instant has put the
\* one into missed and the other into now
C36_Witness ==
    /\ lastOp.op = "groupByTimeHorizon"
    /\ Len(obligations) = 2
    /\ obligations[1].status = "pending" /\ obligations[1].due_at > clock
    /\ obligations[2].status = "missed" /\ obligations[2].due_at < clock
    /\ lastOp.ret.missed = << obligations[2] >>
    /\ lastOp.ret.now = << obligations[1] >>

\* C37: the sweep that getAll runs changes nothing but the status, and only
\* of obligations that were pending with a due_at before the instant of the
\* call, which become missed: the collection keeps its length and its order,
\* and every obligation its id, title, due_at, estimated_duration, urgency
\* and created_at; a sweep that changes no status leaves the file as it is;
\* a getAll that follows a getAll at the same instant changes nothing.
C37_SweepChangesOnlyOverdueStatus ==
    [][lastOp'.op = "getAll" =>
          /\ Len(obligations') = Len(obligations)
          /\ \A i \in Positions :
                /\ obligations'[i] =
                       [obligations[i] EXCEPT !.status = obligations'[i].status]
                /\ obligations'[i].status # obligations[i].status =>
                       /\ PendingPastDue(obligations[i], clock')
                       /\ obligations'[i].status = "missed"
          /\ obligations' = obligations => persisted' = persisted
          /\ (lastOp.op = "getAll" /\ clock' = clock) =>
                (obligations' = obligations /\ persisted' = persisted)]_vars

\* a getAll has just swept the first of two obligations from pending into
\* missed and has left the second, pending and due later, as it was
C37_Witness ==
    /\ lastOp.op = "getAll" /\ lastOp.idx = 1 /\ lastOp.prev = "pending"
    /\ Len(obligations) = 2
    /\ obligations[1].status = "missed" /\ obligations[1].due_at < clock
    /\ obligations[2].status = "pending" /\ obligations[2].due_at > clock

\* a getAll whose sweep changed no status has just returned and has left
\* alone a file that does not hold the collection (an earlier write failed)
C37_WitnessNothingWritten ==
    /\ lastOp.op = "getAll" /\ lastOp.idx = 0 /\ lastOp.ret = "ok"
    /\ obligations # << >>
    /\ persisted # obligations

----------------------------------------------------------------------------
(* The store and the grouping at one evaluation instant: the manager's      *)
(* getAll and update (obligationManager.js, lines 43-46, 64-85, 107-124)    *)
(* and the two groupings read the clock at the same whole minute of local   *)
(* time, at which the collection is one of the lists below.                 *)

\* the due instants drawn are 10:00 and, two hours after it, 12:00
BoundaryHour == 10

\* the obligations drawn: pending and due at 10:00 or at 12:00, missed or
\* done and due at 10:00
BoundaryKinds ==
    {[status |-> "pending", due_at |-> d] :
        d \in {BoundaryHour * MinutesPerHour, (BoundaryHour + NowWindowHours) * MinutesPerHour}}
    \cup {[status |-> s, due_at |-> BoundaryHour * MinutesPerHour] : s \in {"missed", "done"}}

BoundaryLists ==
    {<< >>} \cup
    UNION {{[i \in 1..n |-> ViewObligation(f[i], i)] : f \in [1..n -> BoundaryKinds]} :
              n \in 1..MaxListed}

\* the body of a PATCH that sets the due date to the instant of the call
DueNow(now) == [due_at |-> now, estimated_duration |-> UNDEF]

InitBoundary ==
    /\ clock \in ViewInstants
    /\ obligations \in BoundaryLists
    /\ persisted = obligations
    /\ budget = 0
    /\ lastOp = NoCall
    /\ Constructed

NextBoundary ==
    \/ \E ok \in BOOLEAN : GetAll(clock, ok) /\ Untouched
    \/ \E id \in IdInputs, ok \in BOOLEAN : Update(clock, id, DueNow(clock), ok) /\ Untouched
    \/ GroupByTimeHorizon
    \/ ListObligations

SpecBoundary == InitBoundary /\ [][NextBoundary]_vars

\* C38: an obligation due exactly at the evaluation instant is overdue
\* neither for the store nor for the grouping: the sweep of getAll leaves it
\* pending, an update that sets the due date of an obligation that is not
\* done to the instant of the call makes it pending, and the grouping (the
\* browser's and the CLI's) places it in now and not in missed; a pending
\* obligation due exactly two hours after the evaluation instant is not
\* placed in now.
C38_BoundaryInstantIsNotOverdue ==
    [][/\ lastOp'.op = "getAll" =>
             \A i \in Positions :
                 (obligations[i].status = "pending" /\ obligations[i].due_at = clock')
                 => obligations'[i].status = "pending"
       /\ (/\ lastOp'.op = "update" /\ lastOp'.idx # 0 /\ lastOp'.arg = clock'
           /\ obligations[lastOp'.idx].status # "done") =>
             /\ obligations'[lastOp'.idx].due_at = clock'
             /\ obligations'[lastOp'.idx].status = "pending"
       /\ lastOp'.op \in {"groupByTimeHorizon", "listObligations"} =>
             \A i \in Positions :
                 /\ (obligations[i].status = "pending" /\ obligations[i].due_at = clock)
                    => (/\ InBucket(lastOp'.ret, "now", obligations[i])
                        /\ ~InBucket(lastOp'.ret, "missed", obligations[i]))
                 /\ (/\ obligations[i].status = "pending"
                     /\ obligations[i].due_at = clock + NowWindowHours * MinutesPerHour)
                    => ~InBucket(lastOp'.ret, "now", obligations[i])]_vars

\* at 10:00 a getAll has returned without a change, and the collection holds
\* an obligation due at 10:00 that is pending
C38_WitnessSweep ==
    /\ lastOp.op = "getAll" /\ lastOp.idx = 0
    /\ clock = BoundaryHour * MinutesPerHour
    /\ \E i \in Positions :
          obligations[i].status = "pending" /\ obligations[i].due_at = clock

\* an update has set the due date of a missed obligation to the instant of
\* the call, and the obligation is pending
C38_WitnessUpdate ==
    /\ lastOp.op = "update" /\ lastOp.idx # 0 /\ lastOp.prev = "missed"
    /\ lastOp.arg = clock
    /\ obligations[lastOp.idx].due_at = clock
    /\ obligations[lastOp.idx].status = "pending"

\* the browser has grouped at 10:00 an obligation due at 10:00, which is in
\* now, and one due at 12:00, which is in today
C38_WitnessGrouping ==
    /\ lastOp.op = "groupByTimeHorizon"
    /\ clock = BoundaryHour * MinutesPerHour
    /\ \E i, j \in Positions :
          /\ obligations[i].status = "pending" /\ obligations[i].due_at = clock
          /\ InBucket(lastOp.ret, "now", obligations[i])
          /\ obligations[j].status = "pending"
          /\ obligations[j].due_at = clock + NowWindowHours * MinutesPerHour
          /\ InBucket(lastOp.ret, "today", obligations[j])

====
